---------------------------- MODULE Spec2Model ----------------------------
(***************************************************************************)
(* A model of the NBA data pipeline (package `pipeline`): the retry        *)
(* caller and API-call counter (utils.py), the frame merger (utils.py),    *)
(* the category fetchers (fetch_lineups.py, fetch_supplementary.py) and    *)
(* the orchestrator (main.py).                                             *)
(*                                                                         *)
(* The program is single threaded.  Its state is the global counter        *)
(* _api_call_count, the frame of the running api_call_with_retry, the      *)
(* frame of the running fetcher, and the orchestrator's locals.  The       *)
(* external service (the nba_api endpoint classes) is the environment:     *)
(* every construction of an endpoint either returns a response or raises.  *)
(***************************************************************************)
EXTENDS Integers, Sequences, FiniteSets, TLC

(***************************************************************************)
(* Bounds of the model.                                                    *)
(***************************************************************************)
\* The largest attempt ceiling the retry harness passes to api_call_with_retry.
MaxRetries == 4
\* The smallest one: range(retries) is empty for a ceiling of 0 and below.
MinRetries == 0 - 1
\* The number of api_call_with_retry invocations the retry harness makes.
MaxCalls == 2
\* The largest number of entries of a dataframes_dict the merge harness builds.
MaxTables == 2
\* The merge-key values of the merge harness's frames are 1..MaxKey.
MaxKey == 2
\* The sweeps of the model run over the first entries of config's catalogs:
\* this many season types, group quantities, per-modes, teams, play types,
\* tracking measure types and defense categories.
NSeasonTypes == 1
NGroupQuantities == 2
NPerModes == 1
NTeams == 1
NPlayTypes == 1
NPtMeasureTypes == 1
NDefenseCategories == 3
\* How often the service changes what it does: between the calls of a sweep,
\* and between the sections of a run.
MaxCallModeChanges == 2
MaxSectionModeChanges == 1
\* The tables of the section harness hold up to MaxRows rows.
MaxRows == 2

(***************************************************************************)
(* Program constants (config.py, utils.py).                                *)
(***************************************************************************)
API_RETRIES == 5
API_BASE_DELAY == 3
API_BACKOFF_MULTIPLIER == 2
HEALTH_RETRIES == 3
HEALTH_BASE_DELAY == 2

\* config.py:17 (the default of NBA_SEASON)
SEASON == "2025-26"

\* config.py:32
GROUP_QUANTITIES == <<5, 3, 2>>

\* config.py:34
PER_MODES == <<"Totals", "PerGame", "Per100Possessions">>

\* config.py:40
SEASON_TYPES == <<"Regular Season", "Playoffs">>

\* config.py:48
PT_MEASURE_TYPES == <<"SpeedDistance", "CatchShoot", "Drives", "Passing", "Possessions",
                      "Rebounding", "Defense", "Efficiency", "PullUpShot", "PostTouch",
                      "PaintTouch", "ElbowTouch">>

\* config.py:66
SYNERGY_PLAY_TYPES == <<"Transition", "Isolation", "PRBallHandler", "PRRollman", "Postup",
                        "Spotup", "Handoff", "Cut", "OffScreen", "OffRebound", "Misc">>

\* config.py:83
DEFENSE_CATEGORIES == <<"Overall", "2 Pointers", "3 Pointers", "Less Than 6Ft",
                        "Less Than 10Ft", "Greater Than 15Ft">>

\* utils.py:276 get_all_team_ids(): the sorted team ids of nba_api's static data
\* (the first of the 30), and utils.py:256 get_team_name: their full names.
TEAM_IDS == <<1610612737, 1610612738, 1610612739>>

TEAM_NAMES == <<"Atlanta Hawks", "Boston Celtics", "Cleveland Cavaliers">>

\* config.py:22
MEASURE_TYPES == <<"Base", "Advanced", "Four Factors", "Misc", "Scoring", "Opponent",
                   "Defense">>

\* The kinds of exception an endpoint construction raises (timeout, transport
\* error, malformed data).  api_call_with_retry catches `Exception`: all kinds.
ExceptionKinds == {"Timeout", "ConnectionError", "KeyError"}

VARIABLES
  \* ---- utils.py: the global counter and the api_call_with_retry frame ----
  api_call_count,   \* _api_call_count
  rpc,              \* where api_call_with_retry is: idle, try, call, returned, raised
  attempt,          \* the loop variable `attempt`
  retries,          \* the parameter `retries`
  base_delay,       \* the parameter `base_delay`
  rparams,          \* the parameter `params` (with the endpoint class)
  rresult,          \* the value returned (the endpoint object), NoResult otherwise
  rerror,           \* the exception raised out of api_call_with_retry, "" otherwise
  \* ---- history of the running call (observers, not program state) ----
  issued,           \* endpoint constructions made so far in the process
  fails,            \* endpoint constructions that raised, in the running call
  waits,            \* the time.sleep(wait) arguments, in the running call
  count_before,     \* _api_call_count when the running call was entered
  last_exc,         \* the kind of the last exception the endpoint raised
  \* ---- the environment ----
  svc,              \* what the external service does (see ServiceMayRaise)
  \* ---- the retry harness ----
  ncalls,           \* api_call_with_retry invocations made by the harness
  \* ---- the merge harness ----
  m_in,             \* the dataframes_dict handed to merge_measure_types
  m_out,            \* what merge_measure_types returned, Pending before
  \* ---- the frame of the running fetcher ----
  fn,               \* the fetcher that runs ("none": no fetcher)
  fpc,              \* where it is: idle, loop, call, end, returned, raised
  idx,              \* the index of the current parameter point in its sweep
  frames,           \* all_frames / frames / player_frames
  frames2,          \* team_frames (hustle), measure_frames (lineups)
  accumulators,     \* lineups: group_quantity -> list of merged frames
  fresult,          \* the value the fetcher returned
  disk,             \* the files save_dataframe has written: path -> table
  \* ---- history of the running fetcher (observers) ----
  calls,            \* the parameter points api_call_with_retry was invoked for
  paces,            \* pace() calls made
  skipped,          \* parameter points whose exception was caught and logged
  outcomes,         \* per point called: "data", "nothing" or "raised"
  \* ---- main.py: the frame of run() ----
  pc,               \* where run() is; argparse_exit when parse_args ended the process
  args,             \* the parsed command line
  healthy,          \* what health_check returned
  results,          \* results: the (name, success, rows) entries, in order
  files_written,    \* files_written
  exit_code,        \* the status of sys.exit, -1 while none
  invoked,          \* the sections whose fetcher _run_section has invoked (observer)
  summary           \* what _print_summary rendered, NoSummary before

retryVars == <<api_call_count, rpc, attempt, retries, base_delay, rparams, rresult,
               rerror, issued, fails, waits, count_before, last_exc>>

harnessVars == <<ncalls>>

mergeVars == <<m_in, m_out>>

fetchVars == <<fn, fpc, idx, frames, frames2, accumulators, fresult, disk,
               calls, paces, skipped, outcomes>>

runVars == <<pc, args, healthy, results, files_written, exit_code, invoked, summary>>

vars == <<retryVars, svc, harnessVars, mergeVars, fetchVars, runVars>>

(***************************************************************************)
(* Python values.  None is PyNone.  A pandas DataFrame is a record         *)
(* [cols, rows]: `cols` the column labels in order, `rows` the rows in     *)
(* order, each row a function from column labels to cell values.  A cell   *)
(* that holds NaN (a missing value) is a column label outside the row's    *)
(* domain.                                                                 *)
(***************************************************************************)
PyNone == [kind |-> "None"]

\* pd.DataFrame()
EmptyDataFrame == [cols |-> <<>>, rows |-> <<>>]

Range(seq) == {seq[i] : i \in 1..Len(seq)}

\* df.empty: no rows or no columns.
DfEmpty(df) == Len(df.cols) = 0 \/ Len(df.rows) = 0

\* len(df)
DfLen(df) == Len(df.rows)

\* pd.isna(row[c])
IsNaN(row, c) == c \notin DOMAIN row

\* The row `row` cut down to the columns `cs` (a set).
RowRestrict(row, cs) == [c \in (DOMAIN row) \cap cs |-> row[c]]

\* df[new_cols]: the columns `new_cols` of df, in that order.
DfSelect(df, new_cols) ==
  [cols |-> new_cols,
   rows |-> [i \in 1..Len(df.rows) |-> RowRestrict(df.rows[i], Range(new_cols))]]

\* df[c] = v for a scalar v: the column c of every row becomes v; a new column
\* is appended at the end, an existing one keeps its place and is overwritten.
DfAssign(df, c, v) ==
  [cols |-> IF c \in Range(df.cols) THEN df.cols ELSE Append(df.cols, c),
   rows |-> [i \in 1..Len(df.rows) |->
               [k \in (DOMAIN df.rows[i]) \cup {c} |->
                  IF k = c THEN v ELSE df.rows[i][k]]]]

\* The columns of a list of frames in order of first appearance.
RECURSIVE UnionCols(_, _)
UnionCols(fs, acc) ==
  IF Len(fs) = 0 THEN acc
  ELSE UnionCols(Tail(fs),
                 acc \o SelectSeq(Head(fs).cols, LAMBDA c : c \notin Range(acc)))

RECURSIVE ConcatRows(_)
ConcatRows(fs) == IF Len(fs) = 0 THEN <<>> ELSE Head(fs).rows \o ConcatRows(Tail(fs))

\* pd.concat(frames, ignore_index=True): the rows of the frames one after the
\* other, over the union of their columns.
DfConcat(fs) == [cols |-> UnionCols(fs, <<>>), rows |-> ConcatRows(fs)]

\* The values of column c in df, NaN left out.
ColumnValues(df, c) ==
  {df.rows[i][c] : i \in {j \in 1..Len(df.rows) : c \in DOMAIN df.rows[j]}}

\* The integers of a finite set in ascending order.
RECURSIVE SortedSeq(_)
SortedSeq(S) ==
  IF S = {} THEN <<>>
  ELSE LET m == CHOOSE x \in S : \A y \in S : x <= y
       IN <<m>> \o SortedSeq(S \ {m})

\* The rows of df whose column `key` holds k, in order.
RowsWithKey(df, key, k) ==
  SelectSeq(df.rows, LAMBDA r : key \in DOMAIN r /\ r[key] = k)

\* Each row of ls joined with each row of rs, the left row varying slowest.
RECURSIVE CrossRows(_, _)
CrossRows(ls, rs) ==
  IF Len(ls) = 0 THEN <<>>
  ELSE [j \in 1..Len(rs) |-> Head(ls) @@ rs[j]] \o CrossRows(Tail(ls), rs)

\* The rows pd.merge produces for the keys ks (a sequence), one key after the
\* other: the matching rows joined, or, where `outer`, the unmatched rows of
\* either side with the other side's columns missing.
RECURSIVE MergeRows(_, _, _, _, _)
MergeRows(left, right, key, ks, outer) ==
  IF Len(ks) = 0 THEN <<>>
  ELSE LET ls == RowsWithKey(left, key, Head(ks))
           rs == RowsWithKey(right, key, Head(ks))
           here == IF Len(ls) > 0 /\ Len(rs) > 0 THEN CrossRows(ls, rs)
                   ELSE IF ~outer THEN <<>>
                   ELSE IF Len(ls) > 0 THEN ls ELSE rs
       IN here \o MergeRows(left, right, key, Tail(ks), outer)

\* The columns of pd.merge(left, right, on=key): the left frame's, then the
\* right frame's other than the key.  (merge_measure_types hands pd.merge frames
\* that share no column but the key, so no _x/_y suffix arises.)
MergeCols(left, right, key) ==
  left.cols \o SelectSeq(right.cols, LAMBDA c : c # key)

\* pd.merge(left, right, on=key, how="outer"): the union of the keys of both
\* frames, sorted.  The rows whose key is missing (NaN) come last: pandas takes
\* NaN for a key like any other, so the NaN rows of the two frames are joined
\* with each other, and those of one frame alone are kept as they are.
PdMergeOuter(left, right, key) ==
  LET ls == SelectSeq(left.rows, LAMBDA r : IsNaN(r, key))
      rs == SelectSeq(right.rows, LAMBDA r : IsNaN(r, key))
      missing == IF Len(ls) > 0 /\ Len(rs) > 0 THEN CrossRows(ls, rs)
                 ELSE IF Len(ls) > 0 THEN ls ELSE rs
  IN [cols |-> MergeCols(left, right, key),
      rows |-> MergeRows(left, right, key,
                         SortedSeq(ColumnValues(left, key) \cup ColumnValues(right, key)),
                         TRUE) \o missing]

(***************************************************************************)
(* utils.py: merge_measure_types.  A dataframes_dict is a sequence of      *)
(* records [name, df] in insertion order, df a frame or PyNone.            *)
(***************************************************************************)

\* A variant of MergeSelect that keeps every column of every key-bearing frame:
\* no column is claimed by the frame that brought it first.
RECURSIVE MergeSelectAll(_, _, _, _)
MergeSelectAll(d, merge_key, selected, seen_cols) ==
  IF Len(d) = 0 THEN selected
  ELSE LET df == Head(d).df IN
       IF df = PyNone \/ DfEmpty(df) \/ merge_key \notin Range(df.cols)
         THEN MergeSelectAll(Tail(d), merge_key, selected, seen_cols)
         ELSE MergeSelectAll(Tail(d), merge_key, Append(selected, df), seen_cols)

\* A variant of MergeSelect that passes over absent frames only: a frame
\* without rows is selected like any other.
RECURSIVE MergeSelectKeepsEmpty(_, _, _, _)
MergeSelectKeepsEmpty(d, merge_key, selected, seen_cols) ==
  IF Len(d) = 0 THEN selected
  ELSE LET df == Head(d).df IN
       IF df = PyNone
         THEN MergeSelectKeepsEmpty(Tail(d), merge_key, selected, seen_cols)
       ELSE LET new_cols == SelectSeq(df.cols,
                                      LAMBDA c : c \notin seen_cols \/ c = merge_key)
            IN IF Len(new_cols) = 0 \/ merge_key \notin Range(new_cols)
                 THEN MergeSelectKeepsEmpty(Tail(d), merge_key, selected, seen_cols)
                 ELSE MergeSelectKeepsEmpty(Tail(d), merge_key,
                                            Append(selected, DfSelect(df, new_cols)),
                                            seen_cols \cup Range(new_cols))

\* A variant of MergeSelect that marks the columns of a frame as seen before it
\* looks for the merge key: a frame without the key is passed over, but later
\* frames lose the columns it had.
RECURSIVE MergeSelectClaimsFirst(_, _, _, _)
MergeSelectClaimsFirst(d, merge_key, selected, seen_cols) ==
  IF Len(d) = 0 THEN selected
  ELSE LET df == Head(d).df IN
       IF df = PyNone \/ DfEmpty(df)
         THEN MergeSelectClaimsFirst(Tail(d), merge_key, selected, seen_cols)
       ELSE LET new_cols == SelectSeq(df.cols,
                                      LAMBDA c : c \notin seen_cols \/ c = merge_key)
            IN IF Len(new_cols) = 0 \/ merge_key \notin Range(new_cols)
                 THEN MergeSelectClaimsFirst(Tail(d), merge_key, selected,
                                             seen_cols \cup Range(new_cols))
                 ELSE MergeSelectClaimsFirst(Tail(d), merge_key,
                                             Append(selected, DfSelect(df, new_cols)),
                                             seen_cols \cup Range(new_cols))

\* A variant of MergeSelect in which a frame without rows is passed over only
\* after its columns were marked as seen.
RECURSIVE MergeSelectEmptyClaims(_, _, _, _)
MergeSelectEmptyClaims(d, merge_key, selected, seen_cols) ==
  IF Len(d) = 0 THEN selected
  ELSE LET df == Head(d).df IN
       IF df = PyNone
         THEN MergeSelectEmptyClaims(Tail(d), merge_key, selected, seen_cols)
       ELSE IF DfEmpty(df)
         THEN MergeSelectEmptyClaims(Tail(d), merge_key, selected,
                                     seen_cols \cup Range(df.cols))
       ELSE LET new_cols == SelectSeq(df.cols,
                                      LAMBDA c : c \notin seen_cols \/ c = merge_key)
            IN IF Len(new_cols) = 0 \/ merge_key \notin Range(new_cols)
                 THEN MergeSelectEmptyClaims(Tail(d), merge_key, selected, seen_cols)
                 ELSE MergeSelectEmptyClaims(Tail(d), merge_key,
                                             Append(selected, DfSelect(df, new_cols)),
                                             seen_cols \cup Range(new_cols))

\* A variant of MergeSelect that passes over a frame which has nothing new but
\* the merge key.
RECURSIVE MergeSelectSkipsKeyOnly(_, _, _, _)
MergeSelectSkipsKeyOnly(d, merge_key, selected, seen_cols) ==
  IF Len(d) = 0 THEN selected
  ELSE LET df == Head(d).df IN
       IF df = PyNone \/ DfEmpty(df)
         THEN MergeSelectSkipsKeyOnly(Tail(d), merge_key, selected, seen_cols)
       ELSE LET new_cols == SelectSeq(df.cols,
                                      LAMBDA c : c \notin seen_cols \/ c = merge_key)
            IN IF Len(new_cols) <= 1 \/ merge_key \notin Range(new_cols)
                 THEN MergeSelectSkipsKeyOnly(Tail(d), merge_key, selected, seen_cols)
                 ELSE MergeSelectSkipsKeyOnly(Tail(d), merge_key,
                                              Append(selected, DfSelect(df, new_cols)),
                                              seen_cols \cup Range(new_cols))

\* utils.py:163-172: the loop that selects, of every frame, the merge key and
\* the columns no earlier frame has claimed.
RECURSIVE MergeSelect(_, _, _, _)
MergeSelect(d, merge_key, selected, seen_cols) ==
  IF Len(d) = 0 THEN selected
  ELSE LET df == Head(d).df IN
       IF df = PyNone \/ DfEmpty(df)
         THEN MergeSelect(Tail(d), merge_key, selected, seen_cols)
       ELSE LET new_cols == SelectSeq(df.cols,
                                      LAMBDA c : c \notin seen_cols \/ c = merge_key)
            IN IF Len(new_cols) = 0 \/ merge_key \notin Range(new_cols)
                 THEN MergeSelect(Tail(d), merge_key, selected, seen_cols)
                 ELSE MergeSelect(Tail(d), merge_key,
                                  Append(selected, DfSelect(df, new_cols)),
                                  seen_cols \cup Range(new_cols))

\* A variant of MergeJoin that keeps the rows of the keys both frames hold and
\* drops the others, as a join with how="inner" would.
MergeJoinInner(left, right, merge_key) ==
  LET both == PdMergeOuter(left, right, merge_key)
      shared == ColumnValues(left, merge_key) \cap ColumnValues(right, merge_key)
  IN [cols |-> both.cols,
      rows |-> SelectSeq(both.rows,
                         LAMBDA r : IF IsNaN(r, merge_key)
                                    THEN /\ \E i \in 1..Len(left.rows) : IsNaN(left.rows[i], merge_key)
                                         /\ \E i \in 1..Len(right.rows) : IsNaN(right.rows[i], merge_key)
                                    ELSE r[merge_key] \in shared)]

\* utils.py:177: lambda left, right: pd.merge(left, right, on=merge_key, how="outer")
MergeJoin(left, right, merge_key) == PdMergeOuter(left, right, merge_key)

\* utils.py:177: reduce(..., frames), frames not empty.
RECURSIVE MergeReduce(_, _, _)
MergeReduce(acc, rest, merge_key) ==
  IF Len(rest) = 0 THEN acc
  ELSE MergeReduce(MergeJoin(acc, Head(rest), merge_key), Tail(rest), merge_key)

\* utils.py:141-184
merge_measure_types(dataframes_dict, merge_key) ==
  IF Len(dataframes_dict) = 0 THEN EmptyDataFrame
  ELSE LET selected == MergeSelect(dataframes_dict, merge_key, <<>>, {merge_key})
       IN IF Len(selected) = 0 THEN EmptyDataFrame
          ELSE MergeReduce(Head(selected), Tail(selected), merge_key)

(***************************************************************************)
(* The external service.  Constructing an endpoint (the HTTP request)      *)
(* either raises or yields an endpoint object; get_data_frames() on the    *)
(* object returns its tables `dfs`, or raises when the object is `bad`     *)
(* (a response the library cannot turn into tables).                       *)
(*                                                                         *)
(* svc.mode says what the service does with a request:                     *)
(*   any    raise, or answer with any response of the request's menu;      *)
(*   up     answer with the request's full response;                       *)
(*   empty  answer with tables that hold no rows;                          *)
(*   down   raise.                                                         *)
(***************************************************************************)
Endpoint(dfs) == [kind |-> "endpoint", bad |-> FALSE, dfs |-> dfs]

BadEndpoint == [kind |-> "endpoint", bad |-> TRUE, dfs |-> <<>>]

\* A Python str is a sequence of pieces whose concatenation it is; the
\* separator " - " of a lineup's GROUP_NAME is a piece of its own.
PLAYERS == <<"L. James", "A. Davis", "S. Curry", "K. Durant", "N. Jokic", "J. Tatum">>

\* The column a measure type alone brings.
StatColumn(measure_type) ==
  CASE measure_type = "Base" -> "PTS"
    [] measure_type = "Advanced" -> "OFF_RATING"
    [] measure_type = "Four Factors" -> "EFG_PCT"
    [] measure_type = "Misc" -> "PTS_PAINT"
    [] measure_type = "Scoring" -> "PCT_FGA_2PT"
    [] measure_type = "Opponent" -> "OPP_PTS"
    [] OTHER -> "DEF_RATING"

MeasureNo(measure_type) ==
  CHOOSE i \in 1..Len(MEASURE_TYPES) : MEASURE_TYPES[i] = measure_type

LineupColumns(measure_type) ==
  <<"GROUP_ID", "GROUP_NAME", "TEAM_ID", "MIN", StatColumn(measure_type)>>

\* The row LeagueDashLineups holds for the lineup with GROUP_ID k.
LineupRow(measure_type, k) ==
  [c \in Range(LineupColumns(measure_type)) |->
     CASE c = "GROUP_ID" -> k
       [] c = "GROUP_NAME" -> <<PLAYERS[k], " - ", PLAYERS[k + 1]>>
       [] c = "TEAM_ID" -> TEAM_IDS[(k % Len(TEAM_IDS)) + 1]
       [] c = "MIN" -> 10 * k
       [] OTHER -> 100 * MeasureNo(measure_type) + k]

\* The LeagueDashLineups table of a measure type for the lineups `keys`.
LineupFrame(measure_type, keys) ==
  LET ks == SortedSeq(keys)
  IN [cols |-> LineupColumns(measure_type),
      rows |-> [i \in 1..Len(ks) |-> LineupRow(measure_type, ks[i])]]

\* The three tables of TeamPlayerOnOffSummary: overall, on court, off court.
OnOffTables ==
  << [cols |-> <<"TEAM_ID", "MIN">>, rows |-> <<[TEAM_ID |-> 1, MIN |-> 240]>>],
     [cols |-> <<"VS_PLAYER_ID", "MIN">>, rows |-> <<[VS_PLAYER_ID |-> 1, MIN |-> 30]>>],
     [cols |-> <<"VS_PLAYER_ID", "MIN">>, rows |-> <<[VS_PLAYER_ID |-> 1, MIN |-> 18]>>] >>

\* The one table of the league-wide endpoints.
StatTable ==
  [cols |-> <<"ID", "VALUE">>,
   rows |-> <<[ID |-> 1, VALUE |-> 11], [ID |-> 2, VALUE |-> 12]>>]

\* The lineups a service that is up knows.
DefaultKeys == {1, 2}

\* The tables the service holds for the request `req`, the lineups being `keys`.
DataTables(req, keys) ==
  CASE req.endpoint = "LeagueDashLineups" -> <<LineupFrame(req.measure_type, keys)>>
    [] req.endpoint = "TeamPlayerOnOffSummary" -> OnOffTables
    [] req.endpoint = "Probe" -> <<>>
    [] OTHER -> <<StatTable>>

DataResponse(req, keys) == Endpoint(DataTables(req, keys))

\* The same tables without their rows.
NoRows(dfs) == [i \in 1..Len(dfs) |-> [cols |-> dfs[i].cols, rows |-> <<>>]]

\* The response of a service that has no data for the request, as `flavour` says:
\* tables that hold no rows, no table at all, or an object whose
\* get_data_frames() raises.
EmptyResponse(req, flavour) ==
  CASE flavour = "zero_rows" -> Endpoint(NoRows(DataTables(req, DefaultKeys)))
    [] flavour = "no_tables" -> Endpoint(<<>>)
    [] OTHER -> BadEndpoint

EmptyFlavours == {"zero_rows", "no_tables", "bad"}

\* The responses the service may give to the request `req` when it answers.
ResponseMenu(req) ==
  {DataResponse(req, DefaultKeys)} \cup {EmptyResponse(req, f) : f \in EmptyFlavours}

\* What the service does with the request `req`: [mode, keys].  Under a scenario
\* a lineup request is answered as the scenario says for its measure type, and
\* not at all for a group quantity the service has no lineups of.
ServiceOutcome(req) ==
  IF svc.mode = "scenario"
    THEN IF req.group_quantity \in svc.dead
           THEN [mode |-> "empty", keys |-> {}]
           ELSE svc.scen[req.measure_type]
    ELSE [mode |-> svc.mode, keys |-> DefaultKeys]

\* The kinds of exception the request may meet: any kind where the service does
\* as it pleases, a timeout where it is down.
RaiseKinds(req) ==
  IF ServiceOutcome(req).mode = "any" THEN ExceptionKinds ELSE {"Timeout"}

ServiceMayRaise(req) == ServiceOutcome(req).mode \in {"any", "down"}

ServiceResponses(req) ==
  LET o == ServiceOutcome(req)
  IN CASE o.mode = "any" -> ResponseMenu(req)
       [] o.mode = "up" -> {DataResponse(req, o.keys)}
       [] o.mode = "empty" -> {EmptyResponse(req, svc.flavour)}
       [] OTHER -> {}

\* A service that does with every request what `mode` says; `gran` is when it
\* may change its mind: "never", before a "call", or before a "section".
Service(mode, gran, flavour, disk_ok) ==
  [mode |-> mode, gran |-> gran, changes |-> 0, flavour |-> flavour,
   disk_ok |-> disk_ok, scen |-> <<>>, dead |-> {}]

ServiceModes == {"up", "empty", "down"}

ModeChanges(at) == IF at = "call" THEN MaxCallModeChanges ELSE MaxSectionModeChanges

\* The services svc may turn into before a call (at = "call") or a section.
ServiceNext(at) ==
  IF svc.gran # at THEN {svc}
  ELSE {svc} \cup
       { [svc EXCEPT !.mode = m, !.changes = @ + 1] :
           m \in { x \in ServiceModes : x # svc.mode /\ svc.changes < ModeChanges(at) } }

(***************************************************************************)
(* utils.py: the global API-call counter.                                  *)
(***************************************************************************)

\* No endpoint object: api_call_with_retry has not returned.
NoResult == [kind |-> "none"]

\* utils.py:59 get_api_call_count
get_api_call_count == api_call_count

\* utils.py:64 _increment_api_call_count
increment_api_call_count == api_call_count' = api_call_count + 1

(***************************************************************************)
(* utils.py: api_call_with_retry.                                          *)
(***************************************************************************)

\* base ** e for e >= 0.
RECURSIVE Pow(_, _)
Pow(b, e) == IF e <= 0 THEN 1 ELSE b * Pow(b, e - 1)

\* A variant of BackoffWait that counts the attempts from 1: the first wait is
\* base_delay * multiplier already.
BackoffWaitFromOne(bd, att) == bd * Pow(API_BACKOFF_MULTIPLIER, att + 1)

\* utils.py:110  wait = base_delay * (config.API_BACKOFF_MULTIPLIER ** attempt)
BackoffWait(bd, att) == bd * Pow(API_BACKOFF_MULTIPLIER, att)

\* The entry of api_call_with_retry(endpoint_class, params, retries, base_delay);
\* `params` of the model holds the endpoint class too:
\* a caller's action conjoins it.  The loop variable starts at 0.
RetryEnter(params, n, bd) ==
  /\ rpc = "idle"
  /\ rparams' = params
  /\ rpc' = "try"
  /\ attempt' = 0
  /\ retries' = n
  /\ base_delay' = bd
  /\ rresult' = NoResult
  /\ rerror' = ""
  /\ fails' = 0
  /\ waits' = <<>>
  /\ count_before' = api_call_count
  /\ last_exc' = ""
  /\ UNCHANGED <<api_call_count, issued>>

\* The caller has taken the outcome (the value or the exception) of the call.
RetryLeave ==
  /\ rpc \in {"returned", "raised"}
  /\ rpc' = "idle"
  /\ UNCHANGED <<api_call_count, attempt, retries, base_delay, rparams, rresult, rerror,
                 issued, fails, waits, count_before, last_exc>>

\* No api_call_with_retry runs and none is entered.
RetryIdle == UNCHANGED retryVars

\* A variant of RetryAttempt that counts the first attempt of a call only, not
\* its retries.
RetryAttemptFirstOnly ==
  /\ rpc = "try"
  /\ attempt < retries
  /\ api_call_count' = IF attempt = 0 THEN api_call_count + 1 ELSE api_call_count
  /\ rpc' = "call"
  /\ UNCHANGED <<attempt, retries, base_delay, rparams, rresult, rerror, issued, fails,
                 waits, count_before, last_exc>>

\* A variant of RetryAttempt that does not count the attempt.
RetryAttemptUncounted ==
  /\ rpc = "try"
  /\ attempt < retries
  /\ rpc' = "call"
  /\ UNCHANGED <<api_call_count, attempt, retries, base_delay, rparams, rresult, rerror,
                 issued, fails, waits, count_before, last_exc>>

\* utils.py:102-104: the loop takes its next iteration and counts the attempt,
\* before the endpoint is constructed.
RetryAttempt ==
  /\ rpc = "try"
  /\ attempt < retries
  /\ increment_api_call_count
  /\ rpc' = "call"
  /\ UNCHANGED <<attempt, retries, base_delay, rparams, rresult, rerror, issued, fails,
                 waits, count_before, last_exc>>

\* A variant of RetryLoopEmpty that returns None where the loop made no
\* attempt, instead of raising.
RetryLoopEmptyReturnsNone ==
  /\ rpc = "try"
  /\ attempt >= retries
  /\ rpc' = "returned"
  /\ rresult' = [kind |-> "None"]
  /\ UNCHANGED <<api_call_count, attempt, retries, base_delay, rparams, rerror, issued,
                 fails, waits, count_before, last_exc>>

\* utils.py:102,133: range(retries) is empty (retries <= 0): the loop body never
\* runs and the function raises RuntimeError("... exhausted retries").
RetryLoopEmpty ==
  /\ rpc = "try"
  /\ attempt >= retries
  /\ rpc' = "raised"
  /\ rerror' = "RuntimeError: exhausted retries"
  /\ UNCHANGED <<api_call_count, attempt, retries, base_delay, rparams, rresult, issued,
                 fails, waits, count_before, last_exc>>

\* A variant of EndpointReturns without the `return` inside the loop: the object
\* is kept and the loop goes on; the last object is returned when the loop ends.
EndpointReturnsKeepsTrying(resp) ==
  /\ rpc = "call"
  /\ resp \in ServiceResponses(rparams)
  /\ issued' = issued + 1
  /\ rresult' = resp
  /\ IF attempt < retries - 1
       THEN /\ attempt' = attempt + 1
            /\ rpc' = "try"
       ELSE /\ rpc' = "returned"
            /\ UNCHANGED attempt
  /\ UNCHANGED <<api_call_count, retries, base_delay, rparams, rerror, fails,
                 waits, count_before, last_exc>>

\* utils.py:105-107: endpoint_class(**params, timeout=...) returns: the object is
\* returned to the caller at once.
EndpointReturns(resp) ==
  /\ rpc = "call"
  /\ resp \in ServiceResponses(rparams)
  /\ issued' = issued + 1
  /\ rresult' = resp
  /\ rpc' = "returned"
  /\ UNCHANGED <<api_call_count, attempt, retries, base_delay, rparams, rerror, fails,
                 waits, count_before, last_exc>>

\* A variant of EndpointRaises that, as the legacy get_lineups did, returns None
\* after the last failed attempt instead of raising.
EndpointRaisesReturnsNone(kind) ==
  /\ rpc = "call"
  /\ ServiceMayRaise(rparams)
  /\ issued' = issued + 1
  /\ fails' = fails + 1
  /\ last_exc' = kind
  /\ IF attempt < retries - 1
       THEN /\ waits' = Append(waits, BackoffWait(base_delay, attempt))
            /\ attempt' = attempt + 1
            /\ rpc' = "try"
            /\ UNCHANGED rresult
       ELSE /\ rpc' = "returned"
            /\ rresult' = [kind |-> "None"]
            /\ UNCHANGED <<waits, attempt>>
  /\ UNCHANGED <<api_call_count, retries, base_delay, rparams, rerror, count_before>>

\* utils.py:109-130: endpoint_class(...) raises an exception of any kind.  Not the
\* last attempt: sleep `wait` and loop.  The last attempt: raise RuntimeError.
EndpointRaises(kind) ==
  /\ rpc = "call"
  /\ ServiceMayRaise(rparams)
  /\ issued' = issued + 1
  /\ fails' = fails + 1
  /\ last_exc' = kind
  /\ IF attempt < retries - 1
       THEN /\ waits' = Append(waits, BackoffWait(base_delay, attempt))
            /\ attempt' = attempt + 1
            /\ rpc' = "try"
            /\ UNCHANGED rerror
       ELSE /\ rpc' = "raised"
            /\ rerror' = "RuntimeError: failed after attempts"
            /\ UNCHANGED <<waits, attempt>>
  /\ UNCHANGED <<api_call_count, retries, base_delay, rparams, rresult, count_before>>

(***************************************************************************)
(* The retry harness: a caller that invokes api_call_with_retry MaxCalls   *)
(* times, each time with an attempt ceiling of its choice, against an      *)
(* endpoint that returns or raises as it pleases.                          *)
(***************************************************************************)

HarnessInvoke ==
  /\ ncalls < MaxCalls
  /\ \E n \in MinRetries..MaxRetries :
       RetryEnter([endpoint |-> "Probe"], n, API_BASE_DELAY)
  /\ ncalls' = ncalls + 1
  /\ UNCHANGED <<svc, mergeVars, fetchVars, runVars>>

HarnessTake ==
  /\ RetryLeave
  /\ UNCHANGED <<svc, harnessVars, mergeVars, fetchVars, runVars>>

CallAttempt ==
  /\ RetryAttempt
  /\ UNCHANGED <<svc, harnessVars, mergeVars, fetchVars, runVars>>

CallLoopEmpty ==
  /\ RetryLoopEmpty
  /\ UNCHANGED <<svc, harnessVars, mergeVars, fetchVars, runVars>>

CallReturns ==
  /\ rpc = "call"
  /\ \E resp \in ServiceResponses(rparams) : EndpointReturns(resp)
  /\ UNCHANGED <<svc, harnessVars, mergeVars, fetchVars, runVars>>

CallRaises ==
  /\ rpc = "call"
  /\ \E k \in RaiseKinds(rparams) : EndpointRaises(k)
  /\ UNCHANGED <<svc, harnessVars, mergeVars, fetchVars, runVars>>

RetryInit ==
  /\ api_call_count = 0
  /\ rpc = "idle"
  /\ attempt = 0
  /\ retries = 0
  /\ base_delay = 0
  /\ rresult = NoResult
  /\ rerror = ""
  /\ issued = 0
  /\ fails = 0
  /\ waits = <<>>
  /\ count_before = 0
  /\ last_exc = ""
  /\ rparams = [endpoint |-> "none"]

\* No merge, no fetcher and no run() is under way.
Pending == [kind |-> "pending"]

NoSummary == [kind |-> "none"]

NoArgs ==
  [season |-> SEASON, lineups_only |-> FALSE, supplementary_only |-> FALSE,
   dry_run |-> FALSE]

MergeIdle == m_in = <<>> /\ m_out = Pending

FetchIdle ==
  /\ fn = "none"
  /\ fpc = "idle"
  /\ idx = 0
  /\ frames = <<>>
  /\ frames2 = <<>>
  /\ accumulators = <<>>
  /\ fresult = Pending
  /\ disk = <<>>
  /\ calls = <<>>
  /\ paces = 0
  /\ skipped = 0
  /\ outcomes = <<>>

RunIdle ==
  /\ pc = "idle"
  /\ args = NoArgs
  /\ healthy = FALSE
  /\ results = <<>>
  /\ files_written = <<>>
  /\ exit_code = -1
  /\ invoked = <<>>
  /\ summary = NoSummary

InitRetry ==
  /\ RetryInit
  /\ svc = Service("any", "never", "zero_rows", TRUE)
  /\ ncalls = 0
  /\ MergeIdle
  /\ FetchIdle
  /\ RunIdle

NextRetry ==
  \/ HarnessInvoke
  \/ CallAttempt
  \/ CallLoopEmpty
  \/ CallReturns
  \/ CallRaises
  \/ HarnessTake

SpecRetry == InitRetry /\ [][NextRetry]_vars

\* api_call_with_retry has finished: it returned a value or raised.
RetryFinished == rpc \in {"returned", "raised"}

(***************************************************************************)
(* C1.  api_call_with_retry with attempt ceiling N >= 1, against an        *)
(* endpoint that fails exactly N-1 times and then succeeds, returns the    *)
(* endpoint's result and does not raise, and the API-call counter is       *)
(* exactly N higher than when the call was entered.                        *)
(***************************************************************************)
C1_SucceedsOnLastAttempt ==
  (RetryFinished /\ retries >= 1 /\ fails = retries - 1) =>
     /\ rpc = "returned"
     /\ rresult \in ResponseMenu(rparams)
     /\ rerror = ""
     /\ api_call_count = count_before + retries

\* A second call of the harness, with a ceiling of at least two, has returned
\* on its last attempt.
C1_Witness ==
  /\ rpc = "returned"
  /\ retries >= 2
  /\ fails = retries - 1
  /\ count_before > 0

(***************************************************************************)
(* C2.  api_call_with_retry with attempt ceiling N >= 1, against an        *)
(* endpoint that always fails, with whatever kind of exception, raises     *)
(* RuntimeError after exactly N attempts, returns no value (no sentinel),  *)
(* and the API-call counter is exactly N higher than when it was entered.  *)
(* Conversely it raises only after N failed attempts.                      *)
(***************************************************************************)
C2_AlwaysFailingRaises ==
  /\ (RetryFinished /\ retries >= 1 /\ fails = retries) =>
        /\ rpc = "raised"
        /\ rerror = "RuntimeError: failed after attempts"
        /\ rresult = NoResult
        /\ last_exc \in ExceptionKinds
        /\ api_call_count = count_before + retries
  /\ (rpc = "raised" /\ retries >= 1) => fails = retries

\* A call with a ceiling of at least two has raised, its last failure a KeyError
\* (malformed data), after an earlier call moved the counter.
C2_Witness ==
  /\ rpc = "raised"
  /\ retries >= 2
  /\ fails = retries
  /\ last_exc = "KeyError"
  /\ count_before > 0


(***************************************************************************)
(* The merge harness: merge_measure_types applied to a dataframes_dict of  *)
(* up to MaxTables entries.  The entry at position p is None or a frame    *)
(* whose columns are one of MergeColumnSets and whose merge keys are a     *)
(* subset of 1..MaxKey; its cells hold values no other cell of the dict    *)
(* holds, so that a merged cell tells the frame and row it came from.      *)
(***************************************************************************)
MergeColumnSets ==
  { <<"GROUP_ID", "X">>, <<"GROUP_ID", "X", "Y">>, <<"X", "Y">>, <<"Y", "GROUP_ID">> }

ColumnNo(c) == CASE c = "X" -> 1 [] c = "Y" -> 2 [] OTHER -> 0

\* The cell of column c in row i of the frame at position p.
HarnessCell(p, c, i, k) ==
  IF c = "GROUP_ID" THEN k ELSE p * 100 + i * 10 + ColumnNo(c)

HarnessFrame(p, cols, ks) ==
  [cols |-> cols,
   rows |-> [i \in 1..Len(ks) |-> [c \in Range(cols) |-> HarnessCell(p, c, i, ks[i])]]]

Reverse(seq) == [i \in 1..Len(seq) |-> seq[Len(seq) + 1 - i]]

\* The key columns the harness gives a frame at position p: the keys of a set in
\* ascending order (p odd) or descending order (p even), and, for the two-column
\* frame, also with the first key in a second row.
HarnessKeySeqs(p, cols) ==
  LET ordered == { IF p % 2 = 1 THEN SortedSeq(S) ELSE Reverse(SortedSeq(S)) :
                     S \in SUBSET (1..MaxKey) }
  IN ordered \cup
     IF cols = <<"GROUP_ID", "X">>
       THEN { Append(ks, ks[1]) : ks \in { q \in ordered : Len(q) > 0 } }
       ELSE {}

MergeEntries(p) ==
  { [name |-> MEASURE_TYPES[p], df |-> PyNone] } \cup
  UNION { { [name |-> MEASURE_TYPES[p], df |-> HarnessFrame(p, cols, ks)] :
              ks \in HarnessKeySeqs(p, cols) } : cols \in MergeColumnSets }

\* The dataframes_dicts of n entries.
RECURSIVE MergeInputsOfLen(_)
MergeInputsOfLen(n) ==
  IF n = 0 THEN { <<>> }
  ELSE { Append(d, e) : d \in MergeInputsOfLen(n - 1), e \in MergeEntries(n) }

\* The dataframes_dicts of up to n entries.
MergeInputs(n) == UNION { MergeInputsOfLen(k) : k \in 0..n }

\* merge_measure_types(m_in, merge_key="GROUP_ID")
MergeCall ==
  /\ m_out = Pending
  /\ m_out' = merge_measure_types(m_in, "GROUP_ID")
  /\ UNCHANGED <<m_in, retryVars, svc, harnessVars, fetchVars, runVars>>

InitMerge ==
  /\ m_in \in MergeInputs(MaxTables)
  /\ m_out = Pending
  /\ RetryInit
  /\ svc = Service("any", "never", "zero_rows", TRUE)
  /\ ncalls = 0
  /\ FetchIdle
  /\ RunIdle

NextMerge == MergeCall

SpecMerge == InitMerge /\ [][NextMerge]_vars

\* The entry at position p of m_in takes part in the merge: it is a frame, not
\* empty, and has the merge key.
Contributes(p) ==
  /\ m_in[p].df # PyNone
  /\ ~DfEmpty(m_in[p].df)
  /\ "GROUP_ID" \in Range(m_in[p].df.cols)

\* The merge-key values of a frame (none when it has no such column).
KeysOf(df) == ColumnValues(df, "GROUP_ID")

(***************************************************************************)
(* C4.  merge_measure_types applied to A (columns K,X) and B (columns      *)
(* K,X,Y), in the order [A,B], yields a frame with exactly the columns     *)
(* K,X,Y, and in every merged row whose key is in both A and B the X cell  *)
(* is the X cell of a row of A with that key, not B's.  In general, for    *)
(* any column that several contributing frames have, the merged column     *)
(* holds cells of the first of them only.                                  *)
(***************************************************************************)
C4_FirstSourceWins ==
  m_out # Pending =>
    /\ ( /\ Len(m_in) = 2
         /\ Contributes(1) /\ m_in[1].df.cols = <<"GROUP_ID", "X">>
         /\ Contributes(2) /\ m_in[2].df.cols = <<"GROUP_ID", "X", "Y">> ) =>
           /\ m_out.cols = <<"GROUP_ID", "X", "Y">>
           /\ \A i \in 1..Len(m_out.rows) :
                LET r == m_out.rows[i] IN
                r["GROUP_ID"] \in KeysOf(m_in[1].df) \cap KeysOf(m_in[2].df) =>
                  /\ "X" \in DOMAIN r
                  /\ \E j \in 1..Len(m_in[1].df.rows) :
                       /\ m_in[1].df.rows[j]["GROUP_ID"] = r["GROUP_ID"]
                       /\ m_in[1].df.rows[j]["X"] = r["X"]
    /\ \A c \in {"X", "Y"} : \A p \in 1..Len(m_in) :
         ( /\ Contributes(p) /\ c \in Range(m_in[p].df.cols)
           /\ \A q \in 1..(p - 1) : ~(Contributes(q) /\ c \in Range(m_in[q].df.cols)) ) =>
             /\ Len(SelectSeq(m_out.cols, LAMBDA x : x = c)) = 1
             /\ ColumnValues(m_out, c) \subseteq ColumnValues(m_in[p].df, c)

\* A (K,X) and B (K,X,Y) have been merged; they share a key and each has a key
\* the other lacks.
C4_Witness ==
  /\ m_out # Pending
  /\ Len(m_in) = 2
  /\ m_in[1].df # PyNone /\ m_in[1].df.cols = <<"GROUP_ID", "X">>
  /\ m_in[2].df # PyNone /\ m_in[2].df.cols = <<"GROUP_ID", "X", "Y">>
  /\ KeysOf(m_in[1].df) = {1, 2}
  /\ KeysOf(m_in[2].df) = {2}
  /\ Len(m_out.rows) >= 2

(***************************************************************************)
(* C6.  merge_measure_types outer-joins the contributing frames on the     *)
(* merge key: the merge-key values of the merged frame are the union of    *)
(* the key sets of the contributing (non-empty, key-bearing) frames, so a  *)
(* key that only one frame has is still in the output.                     *)
(***************************************************************************)
C6_OuterJoinKeyUnion ==
  m_out # Pending =>
    KeysOf(m_out) =
      UNION { KeysOf(m_in[p].df) : p \in { q \in 1..Len(m_in) : Contributes(q) } }

\* Two contributing frames have been merged, each with a key the other lacks.
C6_Witness ==
  /\ m_out # Pending
  /\ Len(m_in) = 2
  /\ Contributes(1) /\ Contributes(2)
  /\ KeysOf(m_in[1].df) \ KeysOf(m_in[2].df) # {}
  /\ KeysOf(m_in[2].df) \ KeysOf(m_in[1].df) # {}
  /\ KeysOf(m_out) = KeysOf(m_in[1].df) \cup KeysOf(m_in[2].df)

(***************************************************************************)
(* The sweeps of the fetchers.  A parameter point is the `params` of its   *)
(* api_call_with_retry call, with the endpoint class; the points of a      *)
(* fetcher are in the order its nested loops visit them.                   *)
(***************************************************************************)
Take(seq, n) == SubSeq(seq, 1, IF n < Len(seq) THEN n ELSE Len(seq))

SweptSeasonTypes == Take(SEASON_TYPES, NSeasonTypes)

SweptGroupQuantities == Take(GROUP_QUANTITIES, NGroupQuantities)

SweptPerModes == Take(PER_MODES, NPerModes)

SweptTeamIds == Take(TEAM_IDS, NTeams)

SweptPlayTypes == Take(SYNERGY_PLAY_TYPES, NPlayTypes)

SweptPtMeasureTypes == Take(PT_MEASURE_TYPES, NPtMeasureTypes)

SweptDefenseCategories == Take(DEFENSE_CATEGORIES, NDefenseCategories)

\* The element of `seq` the (0-based) point number j selects, where the loops
\* nested inside the loop over `seq` make `inner` iterations altogether.
Digit(seq, j, inner) == seq[((j \div inner) % Len(seq)) + 1]

\* fetch_lineups.py:144-159
LineupPoints ==
  LET nG == Len(SweptGroupQuantities)
      nP == Len(SweptPerModes)
      nM == Len(MEASURE_TYPES)
  IN [i \in 1..(Len(SweptSeasonTypes) * nG * nP * nM) |->
        [endpoint |-> "LeagueDashLineups",
         season_type |-> Digit(SweptSeasonTypes, i - 1, nG * nP * nM),
         group_quantity |-> Digit(SweptGroupQuantities, i - 1, nP * nM),
         per_mode |-> Digit(SweptPerModes, i - 1, nM),
         measure_type |-> Digit(MEASURE_TYPES, i - 1, 1)]]

\* fetch_supplementary.py:51-73
OnOffPoints ==
  LET nS == Len(SweptSeasonTypes)
  IN [i \in 1..(Len(SweptTeamIds) * nS) |->
        [endpoint |-> "TeamPlayerOnOffSummary",
         team_id |-> Digit(SweptTeamIds, i - 1, nS),
         season_type |-> Digit(SweptSeasonTypes, i - 1, 1)]]

\* fetch_supplementary.py:131-151
ClutchPoints ==
  [i \in 1..Len(SweptSeasonTypes) |->
     [endpoint |-> "LeagueDashTeamClutch", season_type |-> SweptSeasonTypes[i]]]

\* fetch_supplementary.py:195
type_groupings == <<"Offensive", "Defensive">>

\* fetch_supplementary.py:196
play_player_or_team_values == << <<"T", "Team">>, <<"P", "Player">> >>

\* fetch_supplementary.py:206-233
PlayTypePoints ==
  LET nY == Len(SweptPlayTypes)
      nG == Len(type_groupings)
      nT == Len(play_player_or_team_values)
  IN [i \in 1..(Len(SweptSeasonTypes) * nY * nG * nT) |->
        [endpoint |-> "SynergyPlayTypes",
         season_type |-> Digit(SweptSeasonTypes, i - 1, nY * nG * nT),
         play_type |-> Digit(SweptPlayTypes, i - 1, nG * nT),
         type_grouping |-> Digit(type_groupings, i - 1, nT),
         player_or_team |-> Digit(play_player_or_team_values, i - 1, 1)[1],
         label |-> Digit(play_player_or_team_values, i - 1, 1)[2]]]

\* fetch_supplementary.py:288-327: per season type the players, then the teams.
HustlePoints ==
  [i \in 1..(Len(SweptSeasonTypes) * 2) |->
     [endpoint |-> IF i % 2 = 1 THEN "LeagueHustleStatsPlayer"
                                ELSE "LeagueHustleStatsTeam",
      season_type |-> SweptSeasonTypes[(i + 1) \div 2]]]

\* fetch_supplementary.py:371
tracking_player_or_team_values == << <<"Player", "Player">>, <<"Team", "Team">> >>

\* fetch_supplementary.py:379-399
TrackingPoints ==
  LET nM == Len(SweptPtMeasureTypes)
      nT == Len(tracking_player_or_team_values)
  IN [i \in 1..(Len(SweptSeasonTypes) * nM * nT) |->
        [endpoint |-> "LeagueDashPtStats",
         season_type |-> Digit(SweptSeasonTypes, i - 1, nM * nT),
         pt_measure_type |-> Digit(SweptPtMeasureTypes, i - 1, nT),
         player_or_team |-> Digit(tracking_player_or_team_values, i - 1, 1)[1],
         label |-> Digit(tracking_player_or_team_values, i - 1, 1)[2]]]

\* fetch_supplementary.py:448-462
DefensePoints ==
  LET nC == Len(SweptDefenseCategories)
  IN [i \in 1..(Len(SweptSeasonTypes) * nC) |->
        [endpoint |-> "LeagueDashPtDefend",
         season_type |-> Digit(SweptSeasonTypes, i - 1, nC),
         defense_category |-> Digit(SweptDefenseCategories, i - 1, 1)]]

\* fetch_supplementary.py:505-514
EstimatedPoints ==
  [i \in 1..Len(SweptSeasonTypes) |->
     [endpoint |-> "PlayerEstimatedMetrics", season_type |-> SweptSeasonTypes[i]]]

FlatFetchers == {"fetch_clutch", "fetch_play_types", "fetch_tracking",
                 "fetch_defense_tracking", "fetch_estimated_metrics"}

Points(f) ==
  CASE f = "fetch_and_merge_lineups" -> LineupPoints
    [] f = "fetch_on_off" -> OnOffPoints
    [] f = "fetch_clutch" -> ClutchPoints
    [] f = "fetch_play_types" -> PlayTypePoints
    [] f = "fetch_hustle" -> HustlePoints
    [] f = "fetch_tracking" -> TrackingPoints
    [] f = "fetch_defense_tracking" -> DefensePoints
    [] f = "fetch_estimated_metrics" -> EstimatedPoints
    [] OTHER -> <<>>

\* The provenance columns a fetcher sets on the table of point p, in the order
\* it sets them.
Tags(f, p) ==
  CASE f = "fetch_play_types" ->
         << <<"PLAY_TYPE", p.play_type>>, <<"TYPE_GROUPING", p.type_grouping>>,
            <<"PLAYER_OR_TEAM", p.label>>, <<"SEASON_TYPE", p.season_type>> >>
    [] f = "fetch_tracking" ->
         << <<"PT_MEASURE_TYPE", p.pt_measure_type>>, <<"PLAYER_OR_TEAM", p.label>>,
            <<"SEASON_TYPE", p.season_type>> >>
    [] f = "fetch_defense_tracking" ->
         << <<"DEFENSE_CATEGORY", p.defense_category>>,
            <<"SEASON_TYPE", p.season_type>> >>
    [] OTHER -> << <<"SEASON_TYPE", p.season_type>> >>

\* df[c1] = v1; df[c2] = v2; ...
RECURSIVE DfAssignAll(_, _)
DfAssignAll(df, tags) ==
  IF Len(tags) = 0 THEN df
  ELSE DfAssignAll(DfAssign(df, Head(tags)[1], Head(tags)[2]), Tail(tags))

\* df[c] = F(row) for every row: a column computed row by row.
DfAssignBy(df, c, F(_)) ==
  [cols |-> IF c \in Range(df.cols) THEN df.cols ELSE Append(df.cols, c),
   rows |-> [i \in 1..Len(df.rows) |->
               [k \in (DOMAIN df.rows[i]) \cup {c} |->
                  IF k = c THEN F(df.rows[i]) ELSE df.rows[i][k]]]]

\* utils.py:256 get_team_name: _TEAM_MAP.get(team_id, "Unknown")
get_team_name(team_id) ==
  IF \E i \in 1..Len(TEAM_IDS) : TEAM_IDS[i] = team_id
    THEN TEAM_NAMES[CHOOSE i \in 1..Len(TEAM_IDS) : TEAM_IDS[i] = team_id]
    ELSE "Unknown"

\* s.split(" - ") of a str s (a sequence of pieces): the pieces between the
\* separators; `cur` is the part under way, `acc` the parts done.
RECURSIVE StrSplit(_, _, _)
StrSplit(s, cur, acc) ==
  IF Len(s) = 0 THEN Append(acc, cur)
  ELSE IF Head(s) = " - " THEN StrSplit(Tail(s), <<>>, Append(acc, cur))
  ELSE StrSplit(Tail(s), Append(cur, Head(s)), acc)

\* str(n) of a group quantity.
IntStr(n) == CASE n = 5 -> "5" [] n = 3 -> "3" [] n = 2 -> "2" [] OTHER -> "?"

\* config.DATA_DIR / f"lineups_{gq}man_{season}.csv"
LineupPath(gq, season) == <<"lineups_", IntStr(gq), "man_", season, ".csv">>

\* config.DATA_DIR / f"{stem}_{season}.csv"
DataPath(stem, season) == <<stem, "_", season, ".csv">>

\* The file save_dataframe(df, filepath) writes, by its path and shape.
SavedFile(df, filepath) ==
  [path |-> filepath, rows |-> Len(df.rows), cols |-> Len(df.cols)]

\* The strings the lineup tables are sorted by, in Python's str order.
StringOrder == <<"Atlanta Hawks", "Boston Celtics", "Cleveland Cavaliers",
                 "Per100Possessions", "PerGame", "Playoffs", "Regular Season",
                 "Totals", "Unknown">>

StrRank(x) == CHOOSE i \in 1..Len(StringOrder) : StringOrder[i] = x

\* The rank of row r in column c for sort_values: NaN last, MIN descending,
\* the other columns ascending.
SortKey(r, c) ==
  IF IsNaN(r, c) THEN 1000000
  ELSE IF c = "MIN" THEN 0 - r[c] ELSE StrRank(r[c])

\* Row a sorts strictly before row b by the columns sort_cols.
RECURSIVE RowBefore(_, _, _)
RowBefore(a, b, sort_cols) ==
  IF Len(sort_cols) = 0 THEN FALSE
  ELSE LET ka == SortKey(a, Head(sort_cols))
           kb == SortKey(b, Head(sort_cols))
       IN IF ka # kb THEN ka < kb ELSE RowBefore(a, b, Tail(sort_cols))

\* `rows` with r inserted behind the last row that does not sort after it.
RECURSIVE InsertRow(_, _, _)
InsertRow(rows, r, sort_cols) ==
  IF Len(rows) = 0 THEN <<r>>
  ELSE IF RowBefore(r, Head(rows), sort_cols) THEN <<r>> \o rows
  ELSE <<Head(rows)>> \o InsertRow(Tail(rows), r, sort_cols)

RECURSIVE SortRows(_, _, _)
SortRows(rows, sorted, sort_cols) ==
  IF Len(rows) = 0 THEN sorted
  ELSE SortRows(Tail(rows), InsertRow(sorted, Head(rows), sort_cols), sort_cols)

\* fetch_lineups.py:210-213: df.sort_values(by=sort_cols, ascending=...), a
\* stable sort.
DfSortValues(df, sort_cols) ==
  [cols |-> df.cols, rows |-> SortRows(df.rows, <<>>, sort_cols)]

(***************************************************************************)
(* The fetchers.  One frame (fn, fpc, idx and the lists) serves whichever  *)
(* fetcher runs: the sections of a run are executed one after the other.   *)
(***************************************************************************)

\* A fetcher is called: its locals are fresh.
FetchEnter(f) ==
  /\ fpc \in {"idle", "returned", "raised"}
  /\ fn' = f
  /\ fpc' = "loop"
  /\ idx' = 1
  /\ frames' = <<>>
  /\ frames2' = <<>>
  /\ accumulators' = IF f = "fetch_and_merge_lineups"
                       THEN [gq \in Range(SweptGroupQuantities) |-> <<>>]
                       ELSE <<>>
  /\ fresult' = Pending
  /\ calls' = <<>>
  /\ paces' = 0
  /\ skipped' = 0
  /\ outcomes' = <<>>
  /\ UNCHANGED disk

\* The body of the loops reaches api_call_with_retry(endpoint, params=...) for
\* the next parameter point, with the season the fetcher was called for (run()
\* passes args.season); retries and base_delay take their defaults.
FetchCall ==
  /\ fpc = "loop"
  /\ idx <= Len(Points(fn))
  /\ RetryEnter(Points(fn)[idx] @@ [season |-> args.season], API_RETRIES, API_BASE_DELAY)
  /\ svc' \in ServiceNext("call")
  /\ fpc' = "call"
  /\ calls' = Append(calls, Points(fn)[idx])
  /\ UNCHANGED <<fn, idx, frames, frames2, accumulators, fresult, disk, paces, skipped,
                 outcomes, harnessVars, mergeVars, runVars>>

\* The try block around the call ends in its except clause: api_call_with_retry
\* raised, or result.get_data_frames() did.
TryRaised == rpc = "raised" \/ rresult.bad

\* dfs = result.get_data_frames()
TryDfs == IF TryRaised THEN <<>> ELSE rresult.dfs

\* fetch_supplementary.py:76-98 (on/off), fetch_lineups.py:82-93 and
\* utils.py:164-170 (lineups), `if dfs and not dfs[0].empty` (the others).
\* The tables dfs of a response bring rows into the result of fetcher f: they
\* pass the guard under which f keeps a table, and the table kept outlasts the
\* filter that follows.  fetch_on_off keeps dfs[1] and dfs[2] of three tables or
\* more and drops a combined table without rows at the end (the combined table
\* has the column COURT_STATUS at least, so it is empty only without rows); the
\* lineup fetcher
\* keeps the first table if it has rows, and merge_measure_types passes over a
\* table without GROUP_ID; every other fetcher keeps the first table if it has
\* rows.
Contributed(f, dfs) ==
  CASE f = "fetch_on_off" ->
         Len(dfs) >= 3 /\ (Len(dfs[2].rows) > 0 \/ Len(dfs[3].rows) > 0)
    [] f = "fetch_and_merge_lineups" ->
         Len(dfs) > 0 /\ ~DfEmpty(dfs[1]) /\ "GROUP_ID" \in Range(dfs[1].cols)
    [] OTHER -> Len(dfs) > 0 /\ ~DfEmpty(dfs[1])

\* What the call of the current point came to.
PointOutcome ==
  IF TryRaised THEN "raised"
  ELSE IF Contributed(fn, TryDfs) THEN "data" ELSE "nothing"

\* A variant of TakePoint that, after a point whose call failed, passes over the
\* point that follows.
TakePointSkipsNext ==
  /\ fpc = "call"
  /\ RetryLeave
  /\ outcomes' = Append(outcomes, PointOutcome)
  /\ skipped' = IF TryRaised THEN skipped + 1 ELSE skipped
  /\ paces' = paces + 1
  /\ idx' = IF TryRaised THEN idx + 2 ELSE idx + 1
  /\ fpc' = "loop"
  /\ UNCHANGED <<fn, fresult, disk, calls, svc, harnessVars, mergeVars, runVars>>

\* A variant of TakePoint whose pace() is inside the try block: a point whose
\* call raised is not followed by a pacing delay.
TakePointPacesInsideTry ==
  /\ fpc = "call"
  /\ RetryLeave
  /\ outcomes' = Append(outcomes, PointOutcome)
  /\ skipped' = IF TryRaised THEN skipped + 1 ELSE skipped
  /\ paces' = IF TryRaised THEN paces ELSE paces + 1
  /\ idx' = idx + 1
  /\ fpc' = "loop"
  /\ UNCHANGED <<fn, fresult, disk, calls, svc, harnessVars, mergeVars, runVars>>

\* What every fetcher does once the call of a point is over: the except clause
\* logs the error, pace() is called, and the loop goes to the next point.
TakePoint ==
  /\ fpc = "call"
  /\ RetryLeave
  /\ outcomes' = Append(outcomes, PointOutcome)
  /\ skipped' = IF TryRaised THEN skipped + 1 ELSE skipped
  /\ paces' = paces + 1
  /\ idx' = idx + 1
  /\ fpc' = "loop"
  /\ UNCHANGED <<fn, fresult, disk, calls, svc, harnessVars, mergeVars, runVars>>

\* if dfs and not dfs[0].empty
FirstTableHasData(dfs) == Len(dfs) > 0 /\ ~DfEmpty(dfs[1])

\* A variant of FlatTake in which the exception of a point is not caught: it
\* leaves the fetcher.
FlatTakeAborts ==
  /\ fn \in FlatFetchers
  /\ fpc = "call"
  /\ RetryLeave
  /\ outcomes' = Append(outcomes, PointOutcome)
  /\ IF TryRaised
       THEN /\ fpc' = "raised"
            /\ UNCHANGED <<frames, skipped, paces, idx>>
       ELSE /\ fpc' = "loop"
            /\ frames' = IF FirstTableHasData(TryDfs)
                           THEN Append(frames, DfAssignAll(TryDfs[1],
                                                           Tags(fn, Points(fn)[idx])))
                           ELSE frames
            /\ paces' = paces + 1
            /\ idx' = idx + 1
            /\ UNCHANGED skipped
  /\ UNCHANGED <<fn, fresult, disk, calls, svc, harnessVars, mergeVars, runVars>>
  /\ UNCHANGED <<frames2, accumulators>>

\* fetch_clutch, fetch_play_types, fetch_tracking, fetch_defense_tracking,
\* fetch_estimated_metrics: the first table, if it has data, is tagged and kept.
FlatTake ==
  /\ fn \in FlatFetchers
  /\ TakePoint
  /\ frames' = IF FirstTableHasData(TryDfs)
                 THEN Append(frames, DfAssignAll(TryDfs[1], Tags(fn, Points(fn)[idx])))
                 ELSE frames
  /\ UNCHANGED <<frames2, accumulators>>

\* fetch_hustle: player tables go to player_frames, team tables to team_frames.
HustleTake ==
  /\ fn = "fetch_hustle"
  /\ TakePoint
  /\ LET p == Points(fn)[idx]
         got == FirstTableHasData(TryDfs)
         df == DfAssignAll(TryDfs[1], Tags(fn, p))
     IN /\ frames' = IF got /\ p.endpoint = "LeagueHustleStatsPlayer"
                       THEN Append(frames, df) ELSE frames
        /\ frames2' = IF got /\ p.endpoint = "LeagueHustleStatsTeam"
                        THEN Append(frames2, df) ELSE frames2
  /\ UNCHANGED accumulators

\* fetch_supplementary.py:77-87: the on-court and off-court tables, tagged and
\* concatenated.
OnOffCombined(dfs, p) ==
  LET on_court == DfAssign(dfs[2], "COURT_STATUS", "On")
      off_court == DfAssign(dfs[3], "COURT_STATUS", "Off")
      combined == DfConcat(<<on_court, off_court>>)
  IN DfAssignAll(combined, << <<"team", get_team_name(p.team_id)>>,
                              <<"SEASON_TYPE", p.season_type>> >>)

\* fetch_on_off: a response of three tables or more is kept, with or without
\* rows.
OnOffTake ==
  /\ fn = "fetch_on_off"
  /\ TakePoint
  /\ frames' = IF Len(TryDfs) >= 3
                 THEN Append(frames, OnOffCombined(TryDfs, Points(fn)[idx]))
                 ELSE frames
  /\ UNCHANGED <<frames2, accumulators>>

\* merged["team"] = merged["TEAM_ID"].apply(get_team_name), for one row.
TeamOfRow(r) == IF IsNaN(r, "TEAM_ID") THEN "Unknown" ELSE get_team_name(r["TEAM_ID"])

\* A variant of PlayersOfRow that does not split: the list holds the whole
\* GROUP_NAME as its one member.
PlayersOfRowUnsplit(r) ==
  <<IF IsNaN(r, "GROUP_NAME") THEN <<>> ELSE r["GROUP_NAME"]>>

\* merged["GROUP_NAME"].fillna("").str.split(" - "), for one row.
PlayersOfRow(r) ==
  StrSplit(IF IsNaN(r, "GROUP_NAME") THEN <<>> ELSE r["GROUP_NAME"], <<>>, <<>>)

\* fetch_lineups.py:164-192: the measure types of one combination merged and
\* tagged; PyNone where the loop `continue`s.
LineupCombo(measure_frames, p) ==
  IF Len(measure_frames) = 0 THEN PyNone
  ELSE LET merged == merge_measure_types(measure_frames, "GROUP_ID") IN
       IF DfEmpty(merged) THEN PyNone
       ELSE LET tagged == DfAssignAll(merged,
                            << <<"SEASON_TYPE", p.season_type>>,
                               <<"GROUP_QUANTITY", p.group_quantity>>,
                               <<"PER_MODE", p.per_mode>> >>)
                teamed == IF "TEAM_ID" \in Range(tagged.cols)
                            THEN DfAssignBy(tagged, "team", TeamOfRow) ELSE tagged
            IN IF "GROUP_NAME" \in Range(teamed.cols)
                 THEN DfAssignBy(teamed, "players_list", PlayersOfRow) ELSE teamed

\* fetch_all_lineups: the first table if it has data, None otherwise and on any
\* exception.
fetch_all_lineups == IF FirstTableHasData(TryDfs) THEN TryDfs[1] ELSE PyNone

\* fetch_and_merge_lineups: the table of a measure type is kept in
\* measure_frames; after the last measure type of a combination the kept tables
\* are merged and the merged table goes to the accumulator of its group
\* quantity.
LineupTake ==
  /\ fn = "fetch_and_merge_lineups"
  /\ TakePoint
  /\ LET p == Points(fn)[idx]
         df == fetch_all_lineups
         measure_frames == IF df # PyNone /\ ~DfEmpty(df)
                             THEN Append(frames2, [name |-> p.measure_type, df |-> df])
                             ELSE frames2
         merged == LineupCombo(measure_frames, p)
     IN IF p.measure_type # MEASURE_TYPES[Len(MEASURE_TYPES)]
          THEN /\ frames2' = measure_frames
               /\ UNCHANGED accumulators
          ELSE /\ frames2' = <<>>
               /\ accumulators' =
                    IF merged = PyNone THEN accumulators
                    ELSE [accumulators EXCEPT ![p.group_quantity] = Append(@, merged)]
  /\ UNCHANGED frames

\* [f for f in frames if not f.empty]
NonEmpty(fs) == SelectSeq(fs, LAMBDA f : ~DfEmpty(f))

\* The file stem of a single-table fetcher.
Stem(f) ==
  CASE f = "fetch_on_off" -> "on_off"
    [] f = "fetch_clutch" -> "clutch"
    [] f = "fetch_play_types" -> "play_types"
    [] f = "fetch_tracking" -> "tracking"
    [] f = "fetch_defense_tracking" -> "defense_tracking"
    [] OTHER -> "estimated_metrics"

\* The end of a function that saves `files` (save_dataframe, one after the
\* other in this order) and returns `value`.  On a disk that cannot be relied
\* on one of the saves raises OSError: the files saved before it are written,
\* the exception leaves the function and nothing is returned.
SaveAndReturn(files, value) ==
  IF Len(files) > 0 /\ ~svc.disk_ok
    THEN \E n \in 0..(Len(files) - 1) :
           /\ fpc' = "raised"
           /\ disk' = disk \o SubSeq(files, 1, n)
           /\ UNCHANGED fresult
    ELSE /\ fpc' = "returned"
         /\ fresult' = value
         /\ disk' = disk \o files

\* The sweep is over and nothing else changes.
EndOfSweep ==
  /\ fpc = "loop"
  /\ idx > Len(Points(fn))
  /\ UNCHANGED <<fn, idx, frames, frames2, accumulators, calls, paces, skipped, outcomes,
                 retryVars, svc, harnessVars, mergeVars, runVars>>

\* A variant of FetchEnd without the `if not frames` guard: pd.concat of an
\* empty list raises ValueError.
FetchEndConcatsAnyway ==
  /\ fn \in FlatFetchers \cup {"fetch_on_off"}
  /\ EndOfSweep
  /\ LET fs == NonEmpty(frames)
         df == DfConcat(fs)
     IN IF Len(fs) = 0
          THEN /\ fpc' = "raised"
               /\ UNCHANGED <<fresult, disk>>
          ELSE SaveAndReturn(<<SavedFile(df, DataPath(Stem(fn), args.season))>>, df)

\* The end of a single-table fetcher: no frame with data, return None; otherwise
\* concatenate, save and return the table.
FetchEnd ==
  /\ fn \in FlatFetchers \cup {"fetch_on_off"}
  /\ EndOfSweep
  /\ LET fs == NonEmpty(frames)
         df == DfConcat(fs)
     IN IF Len(fs) = 0
          THEN SaveAndReturn(<<>>, PyNone)
          ELSE SaveAndReturn(<<SavedFile(df, DataPath(Stem(fn), args.season))>>, df)

\* fetch_supplementary.py:329-349
HustleEnd ==
  /\ fn = "fetch_hustle"
  /\ EndOfSweep
  /\ LET player_frames == NonEmpty(frames)
         team_frames == NonEmpty(frames2)
         player_df == IF Len(player_frames) > 0 THEN DfConcat(player_frames) ELSE PyNone
         team_df == IF Len(team_frames) > 0 THEN DfConcat(team_frames) ELSE PyNone
         pfile == IF player_df # PyNone
                    THEN <<SavedFile(player_df, DataPath("hustle_players", args.season))>>
                    ELSE <<>>
         tfile == IF team_df # PyNone
                    THEN <<SavedFile(team_df, DataPath("hustle_teams", args.season))>>
                    ELSE <<>>
     IN SaveAndReturn(pfile \o tfile, [kind |-> "tuple", items |-> <<player_df, team_df>>])

\* A variant of LineupResults without the `if not frames: continue`: a group
\* quantity that collected nothing is entered with a table of no rows.
RECURSIVE LineupResultsKeepsEmpty(_, _, _)
LineupResultsKeepsEmpty(gqs, acc, items) ==
  IF Len(gqs) = 0 THEN items
  ELSE LET combined == IF Len(acc[Head(gqs)]) = 0 THEN EmptyDataFrame
                       ELSE DfConcat(acc[Head(gqs)])
           sort_cols == SelectSeq(<<"team", "SEASON_TYPE", "PER_MODE", "MIN">>,
                                  LAMBDA c : c \in Range(combined.cols))
           sorted == IF Len(sort_cols) > 0 THEN DfSortValues(combined, sort_cols)
                     ELSE combined
       IN LineupResultsKeepsEmpty(Tail(gqs), acc,
                                  Append(items, [key |-> Head(gqs), value |-> sorted]))

\* fetch_lineups.py:202-217: the accumulators of the group quantities gqs, in
\* order, each concatenated and sorted; a group quantity without frames is
\* passed over.
RECURSIVE LineupResults(_, _, _)
LineupResults(gqs, acc, items) ==
  IF Len(gqs) = 0 THEN items
  ELSE IF Len(acc[Head(gqs)]) = 0 THEN LineupResults(Tail(gqs), acc, items)
  ELSE LET combined == DfConcat(acc[Head(gqs)])
           sort_cols == SelectSeq(<<"team", "SEASON_TYPE", "PER_MODE", "MIN">>,
                                  LAMBDA c : c \in Range(combined.cols))
           sorted == IF Len(sort_cols) > 0 THEN DfSortValues(combined, sort_cols)
                     ELSE combined
       IN LineupResults(Tail(gqs), acc,
                        Append(items, [key |-> Head(gqs), value |-> sorted]))

\* fetch_lineups.py:200-226: every group quantity that has frames is saved and
\* entered in the dict the function returns.
LineupEnd ==
  /\ fn = "fetch_and_merge_lineups"
  /\ EndOfSweep
  /\ LET items == LineupResults(SweptGroupQuantities, accumulators, <<>>)
     IN SaveAndReturn([i \in 1..Len(items) |->
                         SavedFile(items[i].value, LineupPath(items[i].key, args.season))],
                      [kind |-> "dict", items |-> items])

(***************************************************************************)
(* The sweep harness: one fetcher of SweepFetchers is called once, against *)
(* a service that changes what it does between the calls of the sweep.     *)
(***************************************************************************)
SweepFetchers == {"fetch_clutch", "fetch_tracking", "fetch_defense_tracking",
                  "fetch_estimated_metrics"}

SweepStart ==
  /\ fpc = "idle"
  /\ \E f \in SweepFetchers : FetchEnter(f)
  /\ UNCHANGED <<retryVars, svc, harnessVars, mergeVars, runVars>>

InitSweep ==
  /\ RetryInit
  /\ svc \in { Service(m, "call", f, d) :
                 m \in ServiceModes, f \in EmptyFlavours, d \in BOOLEAN }
  /\ ncalls = 0
  /\ MergeIdle
  /\ FetchIdle
  /\ RunIdle

NextSweep ==
  \/ SweepStart
  \/ FetchCall
  \/ CallAttempt
  \/ CallReturns
  \/ CallRaises
  \/ FlatTake
  \/ FetchEnd

SpecSweep == InitSweep /\ [][NextSweep]_vars

(***************************************************************************)
(* The lineup harness: fetch_and_merge_lineups is called once, against a   *)
(* service that holds, for every measure type, what a scenario says: the   *)
(* lineups of Base and of Advanced are sets of the scenario's choice (or   *)
(* the request fails, or is answered without rows), the other measure      *)
(* types all fail or are all answered without rows, and some group         *)
(* quantity may have no lineups at all.                                    *)
(***************************************************************************)
Up(keys) == [mode |-> "up", keys |-> keys]

Down == [mode |-> "down", keys |-> {}]

NoData == [mode |-> "empty", keys |-> {}]

BaseOutcomes == {Down, NoData, Up({1, 2, 3}), Up({1, 2})}

AdvancedOutcomes == {Down, NoData, Up({2, 3, 4}), Up({1, 2})}

OtherOutcomes == {Down, NoData}

LineupScenario(b, a, o, dead) ==
  [mode |-> "scenario", gran |-> "never", changes |-> 0, flavour |-> "zero_rows",
   disk_ok |-> TRUE,
   scen |-> [mt \in Range(MEASURE_TYPES) |->
               IF mt = "Base" THEN b ELSE IF mt = "Advanced" THEN a ELSE o],
   dead |-> dead]

LineupStart ==
  /\ fpc = "idle"
  /\ FetchEnter("fetch_and_merge_lineups")
  /\ UNCHANGED <<retryVars, svc, harnessVars, mergeVars, runVars>>

InitLineups ==
  /\ RetryInit
  /\ svc \in { LineupScenario(b, a, o, dead) :
                 b \in BaseOutcomes, a \in AdvancedOutcomes, o \in OtherOutcomes,
                 dead \in {{}, {SweptGroupQuantities[Len(SweptGroupQuantities)]}} }
  /\ ncalls = 0
  /\ MergeIdle
  /\ FetchIdle
  /\ RunIdle

NextLineups ==
  \/ LineupStart
  \/ FetchCall
  \/ CallAttempt
  \/ CallReturns
  \/ CallRaises
  \/ LineupTake
  \/ LineupEnd

SpecLineups == InitLineups /\ [][NextLineups]_vars

(***************************************************************************)
(* C5.  In the lineup fetch, for every (season type, group quantity,       *)
(* per-mode) combination for which Base returns the lineups {1,2,3} and    *)
(* Advanced the lineups {2,3,4}, the other measure types returning         *)
(* nothing, the merged table of the combination holds exactly the          *)
(* GROUP_IDs {2,3}: the join is an inner join.                             *)
(***************************************************************************)
C5_InnerJoinKeys ==
  ( /\ fn = "fetch_and_merge_lineups"
    /\ svc.mode = "scenario"
    /\ svc.scen["Base"] = Up({1, 2, 3})
    /\ svc.scen["Advanced"] = Up({2, 3, 4}) ) =>
      \A gq \in DOMAIN accumulators :
        \A i \in 1..Len(accumulators[gq]) : KeysOf(accumulators[gq][i]) = {2, 3}

\* The rows of df that carry the provenance values `tags`.
RowsTagged(df, tags) ==
  SelectSeq(df.rows,
            LAMBDA r : \A j \in 1..Len(tags) :
                         tags[j][1] \in DOMAIN r /\ r[tags[j][1]] = tags[j][2])

\* The table a fetcher returned, the empty table when it returned None.
Returned(v) == IF v = PyNone THEN EmptyDataFrame ELSE v

\* The points of the running sweep that came to outcome x.
PointsWith(x) == {i \in 1..Len(outcomes) : outcomes[i] = x}

(***************************************************************************)
(* C7.  A category fetcher whose sweep meets failing points does not       *)
(* raise: the exception of a point (retries exhausted) is caught and       *)
(* counted as one skipped point, the calls of all later points are still   *)
(* issued, and the output holds exactly the rows of the points that        *)
(* returned data.  With 3 points of which point 2 raises and points 1      *)
(* and 3 return tables, the output is the rows of points 1 and 3 and one   *)
(* point is skipped.                                                       *)
(***************************************************************************)
C7_PartialFailureContinues ==
  (fn \in FlatFetchers /\ fpc \in {"returned", "raised"} /\ svc.disk_ok) =>
     /\ fpc = "returned"
     /\ calls = Points(fn)
     /\ Len(outcomes) = Len(Points(fn))
     /\ skipped = Cardinality(PointsWith("raised"))
     /\ \A i \in 1..Len(Points(fn)) :
          LET mine == RowsTagged(Returned(fresult), Tags(fn, Points(fn)[i]))
          IN IF outcomes[i] = "data"
               THEN [j \in 1..Len(mine) |-> RowRestrict(mine[j], {"ID", "VALUE"})]
                      = StatTable.rows
               ELSE mine = <<>>
     /\ Len(Returned(fresult).rows)
          = Len(StatTable.rows) * Cardinality(PointsWith("data"))

\* The sweep of three defense categories is over: the call of the second
\* category failed five times, the first and the third returned tables.
C7_Witness ==
  /\ fn = "fetch_defense_tracking"
  /\ fpc = "returned"
  /\ outcomes = <<"data", "raised", "data">>
  /\ api_call_count = 1 + API_RETRIES + 1
  /\ skipped = 1
  /\ Len(Returned(fresult).rows) = 4

(***************************************************************************)
(* main.py: the orchestrator.  A fetcher's result is None (PyNone), a      *)
(* DataFrame, a dict [kind |-> "dict", items |-> <<[key, value], ...>>] or *)
(* a tuple [kind |-> "tuple", items |-> <<value, ...>>].                   *)
(***************************************************************************)
IsDataFrame(v) == "cols" \in DOMAIN v

RECURSIVE Sum(_)
Sum(ns) == IF Len(ns) = 0 THEN 0 ELSE Head(ns) + Sum(Tail(ns))

\* The values of a dict, the members of a tuple.
Members(result) ==
  IF result.kind = "dict"
    THEN [i \in 1..Len(result.items) |-> result.items[i].value]
    ELSE result.items

\* A variant of CountRows that takes the result for one table: of a dict or a
\* tuple it counts the first member only.
CountRowsOfFirst(result) ==
  IF result = PyNone THEN 0
  ELSE IF IsDataFrame(result) THEN DfLen(result)
  ELSE IF Len(Members(result)) > 0 /\ IsDataFrame(Members(result)[1])
         THEN DfLen(Members(result)[1]) ELSE 0

\* main.py:55-67: the rows of a fetcher's result.
CountRows(result) ==
  IF result = PyNone THEN 0
  ELSE IF IsDataFrame(result) THEN DfLen(result)
  ELSE Sum([i \in 1..Len(Members(result)) |->
              IF IsDataFrame(Members(result)[i]) THEN DfLen(Members(result)[i]) ELSE 0])

\* main.py:26-79 _run_section, given how the fetcher ended.
run_section(raised, result) ==
  IF raised THEN [ok |-> FALSE, rows |-> 0]
  ELSE IF CountRows(result) > 0 THEN [ok |-> TRUE, rows |-> CountRows(result)]
  ELSE [ok |-> FALSE, rows |-> 0]

\* main.py:218-288: the sections of run() in order: the key in `results`, the
\* fetcher, and the paths appended to files_written when the section is ok.
SectionsOf(season) ==
  << [key |-> "Lineups", fn |-> "fetch_and_merge_lineups",
      files |-> [i \in 1..Len(SweptGroupQuantities) |->
                   LineupPath(SweptGroupQuantities[i], season)]],
     [key |-> "On/Off", fn |-> "fetch_on_off",
      files |-> <<DataPath("on_off", season)>>],
     [key |-> "Clutch", fn |-> "fetch_clutch",
      files |-> <<DataPath("clutch", season)>>],
     [key |-> "Play Types", fn |-> "fetch_play_types",
      files |-> <<DataPath("play_types", season)>>],
     [key |-> "Hustle", fn |-> "fetch_hustle",
      files |-> <<DataPath("hustle_players", season), DataPath("hustle_teams", season)>>],
     [key |-> "Tracking", fn |-> "fetch_tracking",
      files |-> <<DataPath("tracking", season)>>],
     [key |-> "Defense Tracking", fn |-> "fetch_defense_tracking",
      files |-> <<DataPath("defense_tracking", season)>>],
     [key |-> "Estimated Metrics", fn |-> "fetch_estimated_metrics",
      files |-> <<DataPath("estimated_metrics", season)>>] >>

\* The sections of the run under way.
SECTIONS == SectionsOf(args.season)

\* A variant of RunSections in which --lineups-only does not hold back the
\* supplementary sections.
RunSectionsLineupsFlagIgnored(a) ==
  (IF ~a.supplementary_only THEN SubSeq(SectionsOf(a.season), 1, 1) ELSE <<>>) \o
  SubSeq(SectionsOf(a.season), 2, Len(SectionsOf(a.season)))

\* main.py:215,230: the sections a run with the flags `a` executes.
RunSections(a) ==
  (IF ~a.supplementary_only THEN SubSeq(SectionsOf(a.season), 1, 1) ELSE <<>>) \o
  (IF ~a.lineups_only THEN SubSeq(SectionsOf(a.season), 2, Len(SectionsOf(a.season))) ELSE <<>>)

\* main.py:144-148: --season is config.SEASON or the string given.
SeasonChoices == {SEASON, "2023-24"}

\* main.py:134-171 _parse_args: the season, and every flag is there or not.
\* (--verbose changes the logging only.)
ArgSets ==
  [season : SeasonChoices, lineups_only : BOOLEAN, supplementary_only : BOOLEAN,
   dry_run : BOOLEAN]

\* utils.py:208-219: the params of the health check's call.
HealthRequest ==
  [endpoint |-> "LeagueDashLineups", season_type |-> "Regular Season",
   group_quantity |-> 5, per_mode |-> "Totals", measure_type |-> "Base",
   season |-> args.season]

\* main.py:188: run() parses its arguments.  A command line argparse accepts
\* gives the Namespace; one it rejects (an unknown option, --season without a
\* value) ends the process with SystemExit(2), and --help with SystemExit(0),
\* inside parse_args: run() goes no further.
ParseArgs ==
  /\ pc = "idle"
  /\ \/ /\ args' \in ArgSets
        /\ pc' = "parsed"
        /\ UNCHANGED exit_code
     \/ /\ exit_code' \in {0, 2}
        /\ pc' = "argparse_exit"
        /\ UNCHANGED args
  /\ UNCHANGED <<healthy, results, files_written, invoked, summary,
                 retryVars, svc, harnessVars, mergeVars, fetchVars>>

\* main.py:198, utils.py:207-219: health_check calls api_call_with_retry with
\* retries=3 and base_delay=2.0.
HealthCheckCall ==
  /\ pc = "parsed"
  /\ RetryEnter(HealthRequest, HEALTH_RETRIES, HEALTH_BASE_DELAY)
  /\ pc' = "health"
  /\ UNCHANGED <<args, healthy, results, files_written, exit_code, invoked, summary,
                 svc, harnessVars, mergeVars, fetchVars>>

\* A variant of HealthCheckTake that takes a response without rows for a failed
\* check.
HealthCheckTakeNeedsRows ==
  /\ pc = "health"
  /\ RetryLeave
  /\ healthy' = (~TryRaised /\ FirstTableHasData(TryDfs))
  /\ pc' = "checked"
  /\ UNCHANGED <<args, results, files_written, exit_code, invoked, summary,
                 svc, harnessVars, mergeVars, fetchVars>>

\* utils.py:220-228: health_check returns True when the call returned and its
\* tables could be read, whatever they hold, False on any exception.
HealthCheckTake ==
  /\ pc = "health"
  /\ RetryLeave
  /\ healthy' = ~TryRaised
  /\ pc' = "checked"
  /\ UNCHANGED <<args, results, files_written, exit_code, invoked, summary,
                 svc, harnessVars, mergeVars, fetchVars>>

\* A variant of AfterHealthCheck that ends every run whose health check failed,
\* dry or not.
AfterHealthCheckAlwaysExits ==
  /\ pc = "checked"
  /\ IF ~healthy
       THEN /\ exit_code' = 1
            /\ pc' = "exited"
       ELSE /\ pc' = IF args.dry_run THEN "returned" ELSE "sections"
            /\ UNCHANGED exit_code
  /\ UNCHANGED <<args, healthy, results, files_written, invoked, summary,
                 retryVars, svc, harnessVars, mergeVars, fetchVars>>

\* main.py:198-210: a failed health check ends a dry run with sys.exit(1), a
\* dry run returns, any other run goes on to its sections.
AfterHealthCheck ==
  /\ pc = "checked"
  /\ IF ~healthy /\ args.dry_run
       THEN /\ exit_code' = 1
            /\ pc' = "exited"
       ELSE /\ pc' = IF args.dry_run THEN "returned" ELSE "sections"
            /\ UNCHANGED exit_code
  /\ UNCHANGED <<args, healthy, results, files_written, invoked, summary,
                 retryVars, svc, harnessVars, mergeVars, fetchVars>>

\* A variant of SectionStart that starts a section only when the section before
\* it succeeded.
SectionStartAfterSuccess ==
  /\ pc = "sections"
  /\ Len(results) < Len(RunSections(args))
  /\ Len(results) > 0 => results[Len(results)].ok
  /\ LET sec == RunSections(args)[Len(results) + 1]
     IN /\ FetchEnter(sec.fn)
        /\ invoked' = Append(invoked, sec.key)
  /\ svc' \in ServiceNext("section")
  /\ pc' = "section"
  /\ UNCHANGED <<args, healthy, results, files_written, exit_code, summary,
                 retryVars, harnessVars, mergeVars>>

\* _run_section calls the fetcher of the next section.
SectionStart ==
  /\ pc = "sections"
  /\ Len(results) < Len(RunSections(args))
  /\ LET sec == RunSections(args)[Len(results) + 1]
     IN /\ FetchEnter(sec.fn)
        /\ invoked' = Append(invoked, sec.key)
  /\ svc' \in ServiceNext("section")
  /\ pc' = "section"
  /\ UNCHANGED <<args, healthy, results, files_written, exit_code, summary,
                 retryVars, harnessVars, mergeVars>>

\* A variant of SectionDone without the except clause of _run_section: an
\* exception of the fetcher leaves run() and ends the process.
SectionDonePropagates ==
  /\ pc = "section"
  /\ fpc \in {"returned", "raised"}
  /\ IF fpc = "raised"
       THEN /\ pc' = "exited"
            /\ exit_code' = 1
            /\ UNCHANGED <<results, files_written>>
       ELSE /\ LET sec == RunSections(args)[Len(results) + 1]
                   r == run_section(FALSE, fresult)
               IN /\ results' = Append(results, [key |-> sec.key, ok |-> r.ok, rows |-> r.rows])
                  /\ files_written' = IF r.ok THEN files_written \o sec.files
                                      ELSE files_written
            /\ pc' = "sections"
            /\ UNCHANGED exit_code
  /\ UNCHANGED <<args, healthy, invoked, summary,
                 retryVars, svc, harnessVars, mergeVars, fetchVars>>

\* The fetcher is over: _run_section returns (ok, rows), run() enters them in
\* `results` and, when ok, appends the section's paths to files_written.
SectionDone ==
  /\ pc = "section"
  /\ fpc \in {"returned", "raised"}
  /\ LET sec == RunSections(args)[Len(results) + 1]
         r == run_section(fpc = "raised", fresult)
     IN /\ results' = Append(results, [key |-> sec.key, ok |-> r.ok, rows |-> r.rows])
        /\ files_written' = IF r.ok THEN files_written \o sec.files ELSE files_written
  /\ pc' = "sections"
  /\ UNCHANGED <<args, healthy, exit_code, invoked, summary,
                 retryVars, svc, harnessVars, mergeVars, fetchVars>>

\* main.py:87-126 _print_summary, what it renders.
Summary(rs, fw) ==
  [api_calls |-> get_api_call_count,
   total_rows |-> Sum([i \in 1..Len(rs) |-> rs[i].rows]),
   files |-> Len(fw),
   succeeded |-> [i \in 1..Len(SelectSeq(rs, LAMBDA e : e.ok)) |->
                    SelectSeq(rs, LAMBDA e : e.ok)[i].key],
   failed |-> [i \in 1..Len(SelectSeq(rs, LAMBDA e : ~e.ok)) |->
                 SelectSeq(rs, LAMBDA e : ~e.ok)[i].key]]

\* A variant of PrintSummary that gives up the remaining sections after a
\* section that failed.
PrintSummaryAfterFailure ==
  /\ pc = "sections"
  /\ \/ Len(results) = Len(RunSections(args))
     \/ Len(results) > 0 /\ ~results[Len(results)].ok
  /\ summary' = Summary(results, files_written)
  /\ pc' = "returned"
  /\ UNCHANGED <<args, healthy, results, files_written, exit_code, invoked,
                 retryVars, svc, harnessVars, mergeVars, fetchVars>>

\* main.py:293-294: every section of the run is over.
PrintSummary ==
  /\ pc = "sections"
  /\ Len(results) = Len(RunSections(args))
  /\ summary' = Summary(results, files_written)
  /\ pc' = "returned"
  /\ UNCHANGED <<args, healthy, results, files_written, exit_code, invoked,
                 retryVars, svc, harnessVars, mergeVars, fetchVars>>

Init ==
  /\ RetryInit
  /\ svc \in { Service(m, "section", f, d) :
                 m \in ServiceModes, f \in EmptyFlavours, d \in BOOLEAN }
  /\ ncalls = 0
  /\ MergeIdle
  /\ FetchIdle
  /\ RunIdle

Next ==
  \/ ParseArgs
  \/ HealthCheckCall
  \/ HealthCheckTake
  \/ AfterHealthCheck
  \/ SectionStart
  \/ FetchCall
  \/ CallAttempt
  \/ CallReturns
  \/ CallRaises
  \/ LineupTake
  \/ LineupEnd
  \/ OnOffTake
  \/ FlatTake
  \/ FetchEnd
  \/ HustleTake
  \/ HustleEnd
  \/ SectionDone
  \/ PrintSummary

Spec == Init /\ [][Next]_vars

(***************************************************************************)
(* C3.  In every state of a run the API-call counter is the number of      *)
(* external-call attempts made so far, the health check's included: the    *)
(* endpoint constructions that are over plus the one under way.  A step    *)
(* changes the counter only by starting an attempt inside                  *)
(* api_call_with_retry, which adds exactly one before the endpoint is      *)
(* constructed; the counter never decreases.                               *)
(***************************************************************************)
C3_CounterCountsAttempts ==
  /\ [](api_call_count = issued + (IF rpc = "call" THEN 1 ELSE 0))
  /\ [][ api_call_count' # api_call_count =>
           /\ api_call_count' = api_call_count + 1
           /\ rpc = "try" /\ rpc' = "call"
           /\ issued' = issued ]_vars

\* After a health check that failed on all its attempts, a section's call is in
\* its second attempt or a later one: the counter stands above the health
\* check's three.
C3_Witness ==
  /\ pc = "section"
  /\ ~healthy
  /\ rpc = "call"
  /\ attempt >= 1
  /\ api_call_count > HEALTH_RETRIES + 1
  /\ api_call_count = issued + 1

\* The section of `results` entry i.
SectionOf(i) == RunSections(args)[i]

\* The fetcher's frame is that of the section entered last in `results`.
FrameOfLastSection ==
  /\ Len(results) > 0
  /\ fn = SectionOf(Len(results)).fn
  /\ fpc \in {"returned", "raised"}

\* The result says "no data": None, an empty dict, a tuple of None.
Absent(v) ==
  \/ v = PyNone
  \/ /\ ~IsDataFrame(v)
     /\ v.kind \in {"dict", "tuple"}
     /\ \A i \in 1..Len(Members(v)) : Members(v)[i] = PyNone

\* The paths of the section that calls fetcher f.
FilesOf(f) ==
  UNION { Range(SECTIONS[i].files) : i \in {j \in 1..Len(SECTIONS) : SECTIONS[j].fn = f} }

(***************************************************************************)
(* C8.  For every section: when every point of its sweep failed or         *)
(* returned nothing, the fetcher returns an absent result (None, an empty  *)
(* dict, a tuple of None), does not raise and writes no file; the          *)
(* orchestrator enters the section in `results` as (False, 0); and the     *)
(* next section is started all the same, so that a run that has rendered   *)
(* its summary has run every section of its mode.                          *)
(***************************************************************************)
C8_EmptySectionFailsRunGoesOn ==
  /\ ( /\ fpc \in {"returned", "raised"}
       /\ fn # "none"
       /\ PointsWith("data") = {} ) =>
         /\ fpc = "returned"
         /\ Len(outcomes) = Len(Points(fn))
         /\ Absent(fresult)
         /\ \A i \in 1..Len(disk) : disk[i].path \notin FilesOf(fn)
  /\ ( /\ pc \in {"sections", "returned"}
       /\ FrameOfLastSection
       /\ PointsWith("data") = {} ) =>
         results[Len(results)] =
           [key |-> SectionOf(Len(results)).key, ok |-> FALSE, rows |-> 0]
  /\ (pc = "sections" /\ Len(results) < Len(RunSections(args))) => ENABLED SectionStart
  /\ (pc = "section" /\ fpc \in {"returned", "raised"}) => ENABLED SectionDone
  /\ (pc = "returned" /\ ~args.dry_run) =>
         /\ Len(results) = Len(RunSections(args))
         /\ invoked = [i \in 1..Len(results) |-> results[i].key]
         /\ invoked = [i \in 1..Len(RunSections(args)) |-> SectionOf(i).key]

\* A full run is over.  Its first section succeeded, then the service went
\* down: every later section failed with zero rows and was followed by the
\* next, down to the last, whose calls all raised and which wrote no file.
C8_Witness ==
  /\ pc = "returned"
  /\ summary # NoSummary
  /\ Len(results) = Len(SECTIONS)
  /\ results[1].ok
  /\ \A i \in 2..Len(results) : ~results[i].ok /\ results[i].rows = 0
  /\ fn = "fetch_estimated_metrics"
  /\ PointsWith("raised") = 1..Len(Points(fn))
  /\ fresult = PyNone
  /\ \A i \in 1..Len(disk) : disk[i].path \in FilesOf("fetch_and_merge_lineups")

(***************************************************************************)
(* The section harness: _run_section's handling of what a fetcher came to, *)
(* for a fetcher that raised or returned any of SectionResults: None, a    *)
(* table of up to MaxRows rows, a dict with a table or None for some group *)
(* quantities, a pair of tables or None.                                   *)
(***************************************************************************)
HarnessTable(n) == [cols |-> <<"ID">>, rows |-> [i \in 1..n |-> [ID |-> i]]]

\* The value a choice stands for: -1 is None, n >= 0 a table of n rows.
HarnessValue(n) == IF n < 0 THEN PyNone ELSE HarnessTable(n)

\* The dict that holds, for every group quantity whose choice is not -2, the
\* value of its choice.
HarnessDict(choice) ==
  LET gqs == SelectSeq(SweptGroupQuantities, LAMBDA g : choice[g] # 0 - 2)
  IN [kind |-> "dict",
      items |-> [i \in 1..Len(gqs) |-> [key |-> gqs[i], value |-> HarnessValue(choice[gqs[i]])]]]

SectionResults(n) ==
  {PyNone} \cup {HarnessTable(k) : k \in 0..n}
    \cup {HarnessDict(c) : c \in [Range(SweptGroupQuantities) -> (0 - 2)..n]}
    \cup {[kind |-> "tuple", items |-> <<HarnessValue(a), HarnessValue(b)>>] :
            a \in (0 - 1)..n, b \in (0 - 1)..n}

InitSection ==
  /\ RetryInit
  /\ svc = Service("up", "never", "zero_rows", TRUE)
  /\ ncalls = 0
  /\ MergeIdle
  /\ args \in {a \in ArgSets : ~a.dry_run /\ ~(a.lineups_only /\ a.supplementary_only)}
  /\ pc = "section"
  /\ healthy = TRUE
  /\ results = <<>>
  /\ files_written = <<>>
  /\ exit_code = 0 - 1
  /\ invoked = <<RunSections(args)[1].key>>
  /\ summary = NoSummary
  /\ fn = RunSections(args)[1].fn
  /\ \/ fpc = "raised" /\ fresult = Pending
     \/ fpc = "returned" /\ fresult \in SectionResults(MaxRows)
  /\ idx = 0
  /\ frames = <<>>
  /\ frames2 = <<>>
  /\ accumulators = <<>>
  /\ disk = <<>>
  /\ calls = <<>>
  /\ paces = 0
  /\ skipped = 0
  /\ outcomes = <<>>

NextSection == SectionDone

SpecSection == InitSection /\ [][NextSection]_vars

\* The tables a fetcher's result holds.
TablesIn(v) ==
  IF v = PyNone THEN <<>>
  ELSE IF IsDataFrame(v) THEN <<v>>
  ELSE SelectSeq(Members(v), LAMBDA m : IsDataFrame(m))

\* The rows of all the tables of a result, counted one by one.
TotalRows(v) ==
  Cardinality(UNION { {<<t, i>> : i \in 1..Len(TablesIn(v)[t].rows)} :
                        t \in 1..Len(TablesIn(v)) })

(***************************************************************************)
(* C9.  _run_section classifies by rows: a fetcher result that holds 0     *)
(* rows in all is entered as failed, (False, 0); a result that holds at    *)
(* least one row is entered as succeeded, (True, n), n the rows of all     *)
(* the tables of the result together (the values of a dict, the members    *)
(* of a tuple, or the one table).                                          *)
(***************************************************************************)
C9_ClassifiedByTotalRows ==
  (pc = "sections" /\ FrameOfLastSection /\ fpc = "returned") =>
     LET n == TotalRows(fresult)
         e == results[Len(results)]
     IN /\ n = 0 => (~e.ok /\ e.rows = 0)
        /\ n > 0 => (e.ok /\ e.rows = n)

\* A fetcher returned a dict of two tables, of one row and of two: the section
\* is entered as succeeded with three rows.
C9_Witness ==
  /\ pc = "sections"
  /\ Len(results) = 1
  /\ fpc = "returned"
  /\ fresult = [kind |-> "dict",
                items |-> <<[key |-> 5, value |-> HarnessTable(1)],
                            [key |-> 3, value |-> HarnessTable(2)]>>]
  /\ results[1] = [key |-> "Lineups", ok |-> TRUE, rows |-> 3]

(***************************************************************************)
(* C10.  A run invoked with both --lineups-only and --supplementary-only   *)
(* is rejected with a configuration error before any external call: the    *)
(* API-call counter stays 0, no section fetcher is invoked and the run     *)
(* reaches neither its sections nor its normal end.                        *)
(***************************************************************************)
C10_BothOnlyFlagsRejected ==
  (pc \notin {"idle", "argparse_exit"} /\ args.lineups_only /\ args.supplementary_only) =>
     /\ pc \notin {"sections", "section", "returned"}
     /\ api_call_count = 0
     /\ invoked = <<>>

\* s is an initial part of t.
IsPrefix(s, t) == Len(s) <= Len(t) /\ s = SubSeq(t, 1, Len(s))

\* The keys of the entries of `results`, in the order they were entered.
ResultKeys == [i \in 1..Len(results) |-> results[i].key]

\* The eight sections of a full run, in the order run() takes them.
FullRunOrder ==
  <<"Lineups", "On/Off", "Clutch", "Play Types", "Hustle", "Tracking",
    "Defense Tracking", "Estimated Metrics">>

(***************************************************************************)
(* C11.  In a full run (not a dry run, no run-mode flag), whatever         *)
(* sections fail or raise: the sections invoked so far are an initial part *)
(* of lineups, on/off, clutch, play types, hustle, tracking, defense       *)
(* tracking, estimated metrics, so that each is invoked once and in this   *)
(* order; a section is invoked only when all sections before it have their *)
(* entry in the results, one entry each; and the summary is rendered only  *)
(* when the last section is over and all eight entries are there, each     *)
(* section being listed once, as succeeded or as failed.                   *)
(***************************************************************************)
C11_EverySectionOnceInOrder ==
  (pc \notin {"idle", "argparse_exit"} /\ ~args.dry_run /\ ~args.lineups_only /\ ~args.supplementary_only) =>
     /\ IsPrefix(invoked, FullRunOrder)
     /\ ResultKeys = SubSeq(invoked, 1, Len(results))
     /\ Len(invoked) = Len(results) + (IF pc = "section" THEN 1 ELSE 0)
     /\ (pc = "section") => fpc # "idle"
     /\ (pc = "sections" /\ Len(results) > 0) => fpc \in {"returned", "raised"}
     /\ (summary # NoSummary) =>
          /\ pc = "returned"
          /\ fpc \in {"returned", "raised"}
          /\ fn = "fetch_estimated_metrics"
          /\ invoked = FullRunOrder
          /\ ResultKeys = FullRunOrder
          /\ \A i \in 1..Len(FullRunOrder) :
               LET listed(seq) == Cardinality({j \in 1..Len(seq) : seq[j] = FullRunOrder[i]})
               IN listed(summary.succeeded) + listed(summary.failed) = 1
     /\ (pc = "returned") => summary # NoSummary

\* A full run has rendered its summary; the first section failed, a later
\* one succeeded, and all eight are in the results.
C11_Witness ==
  /\ pc = "returned"
  /\ ~args.dry_run /\ ~args.lineups_only /\ ~args.supplementary_only
  /\ summary # NoSummary
  /\ ResultKeys = FullRunOrder
  /\ ~results[1].ok
  /\ results[Len(results)].ok
  /\ Len(summary.failed) > 0 /\ Len(summary.succeeded) > 0

(***************************************************************************)
(* C12.  An exception raised by a section's fetcher never leaves the       *)
(* orchestrator's section handling: _run_section turns it into the entry   *)
(* (False, 0) of that section, adds none of the section's paths to the     *)
(* files written, the process does not exit, and the next section (or the  *)
(* summary, after the last) follows.                                       *)
(***************************************************************************)
C12_FetcherExceptionBecomesFailure ==
  /\ (pc = "section" /\ fpc = "raised") => ENABLED SectionDone
  /\ (pc \in {"sections", "returned"} /\ FrameOfLastSection /\ fpc = "raised") =>
        /\ results[Len(results)] =
             [key |-> SectionOf(Len(results)).key, ok |-> FALSE, rows |-> 0]
        /\ \A i \in 1..Len(files_written) :
             files_written[i] \notin Range(SectionOf(Len(results)).files)
        /\ exit_code # 1
        /\ (pc = "sections" /\ Len(results) < Len(RunSections(args))) => ENABLED SectionStart
        /\ (pc = "sections" /\ Len(results) = Len(RunSections(args))) => ENABLED PrintSummary
  /\ (pc = "exited") => (fpc = "idle" /\ invoked = <<>>)
  /\ (fpc = "raised") => pc \in {"section", "sections", "returned"}

\* The on/off fetcher collected data and raised when it saved them (the disk
\* cannot be written): the section is entered as failed with zero rows, the
\* run has not exited and the clutch section is due next.
C12_Witness ==
  /\ pc = "sections"
  /\ fn = "fetch_on_off"
  /\ fpc = "raised"
  /\ PointsWith("data") # {}
  /\ results[Len(results)] = [key |-> "On/Off", ok |-> FALSE, rows |-> 0]
  /\ RunSections(args)[Len(results) + 1].key = "Clutch"
  /\ exit_code # 1

\* run() has acted on what health_check returned.
PastHealthCheck == pc \notin {"idle", "argparse_exit", "parsed", "health", "checked"}

(***************************************************************************)
(* C13 as stated.  The orchestrator ends with a non-zero exit status if    *)
(* and only if the run is a dry run and the health check failed.  A failed *)
(* health check of a run that is not a dry run stops nothing: the sections *)
(* of the run are invoked, all of them by the time the run returns.  A dry *)
(* run whose health check passed returns normally and invokes no section   *)
(* fetcher.                                                                *)
(***************************************************************************)
C13_NonZeroExitOnlyForFailedDryRun ==
  /\ (exit_code > 0) <=> (pc = "exited")
  /\ (pc = "exited") => (args.dry_run /\ ~healthy)
  /\ PastHealthCheck =>
       /\ (pc = "exited") <=> (args.dry_run /\ ~healthy)
       /\ (~args.dry_run /\ ~healthy) =>
            /\ pc \in {"sections", "section", "returned"}
            /\ (pc = "sections" /\ Len(results) < Len(RunSections(args)))
                  => ENABLED SectionStart
            /\ (pc = "returned") =>
                  /\ invoked = [i \in 1..Len(RunSections(args)) |-> SectionOf(i).key]
                  /\ (~args.lineups_only /\ ~args.supplementary_only)
                        => invoked = FullRunOrder
       /\ (args.dry_run /\ healthy) =>
            /\ pc = "returned"
            /\ invoked = <<>>
            /\ fpc = "idle"
            /\ results = <<>>
            /\ summary = NoSummary

(***************************************************************************)
(* C13, amended.  Given a command line its parser accepts, the             *)
(* orchestrator ends with a non-zero exit status (1) if and only if the    *)
(* run is a dry run and the health check failed; a command line the parser *)
(* rejects ends the process with status 2 before any external call, and    *)
(* --help with status 0.  A failed health check of a run that is not a dry *)
(* run stops nothing: the sections of the run are invoked, all of them by  *)
(* the time the run returns.  A dry run whose health check passed returns  *)
(* normally and invokes no section fetcher.                                *)
(***************************************************************************)
C13_NonZeroExitForFailedDryRunOrUsageError ==
  /\ (exit_code = 1) <=> (pc = "exited")
  /\ (exit_code > 0) <=> (pc = "exited" \/ (pc = "argparse_exit" /\ exit_code = 2))
  /\ (pc = "argparse_exit") =>
       /\ exit_code \in {0, 2}
       /\ api_call_count = 0
       /\ invoked = <<>>
       /\ rpc = "idle" /\ fpc = "idle"
  /\ PastHealthCheck =>
       /\ (pc = "exited") <=> (args.dry_run /\ ~healthy)
       /\ (~args.dry_run /\ ~healthy) =>
            /\ pc \in {"sections", "section", "returned"}
            /\ (pc = "sections" /\ Len(results) < Len(RunSections(args)))
                  => ENABLED SectionStart
            /\ (pc = "returned") =>
                  /\ invoked = [i \in 1..Len(RunSections(args)) |-> SectionOf(i).key]
                  /\ (~args.lineups_only /\ ~args.supplementary_only)
                        => invoked = FullRunOrder
       /\ (args.dry_run /\ healthy) =>
            /\ pc = "returned"
            /\ invoked = <<>>
            /\ fpc = "idle"
            /\ results = <<>>
            /\ summary = NoSummary

\* A dry run whose health check failed on all its three attempts has exited
\* with status 1 and has invoked no section.
C13_Witness ==
  /\ pc = "exited"
  /\ exit_code = 1
  /\ args.dry_run
  /\ ~healthy
  /\ api_call_count = HEALTH_RETRIES
  /\ invoked = <<>>

\* The seven supplementary sections, in the order run() takes them.
SupplementaryOrder == SubSeq(FullRunOrder, 2, Len(FullRunOrder))

\* The fetchers of the supplementary sections.
SupplementaryFetchers ==
  {"fetch_on_off", "fetch_clutch", "fetch_play_types", "fetch_hustle", "fetch_tracking",
   "fetch_defense_tracking", "fetch_estimated_metrics"}

\* The sections a run of the mode `a` is to invoke.
ModeOrder(a) ==
  IF a.lineups_only THEN <<"Lineups">>
  ELSE IF a.supplementary_only THEN SupplementaryOrder
  ELSE FullRunOrder

(***************************************************************************)
(* C14.  Of a run that is not a dry run and has at most one run-mode flag: *)
(* with --lineups-only the only section invoked and recorded is Lineups;   *)
(* with --supplementary-only the seven supplementary sections are invoked  *)
(* and recorded and Lineups is not; with neither flag all eight are.  At   *)
(* no time is a section outside the mode invoked, and when the run returns *)
(* the sections invoked and the entries of the results are those of the    *)
(* mode, no more and no fewer.                                             *)
(***************************************************************************)
C14_RunModeRestrictsSections ==
  (pc \notin {"idle", "argparse_exit"} /\ ~args.dry_run /\ ~(args.lineups_only /\ args.supplementary_only)) =>
     /\ IsPrefix(invoked, ModeOrder(args))
     /\ IsPrefix(ResultKeys, ModeOrder(args))
     /\ args.lineups_only => fn \in {"none", "fetch_and_merge_lineups"}
     /\ args.supplementary_only => fn \in {"none"} \cup SupplementaryFetchers
     /\ (pc = "returned") =>
          /\ invoked = ModeOrder(args)
          /\ ResultKeys = ModeOrder(args)
          /\ Len(summary.succeeded) + Len(summary.failed) = Len(ModeOrder(args))

\* A run with --supplementary-only has returned: the seven supplementary
\* sections were invoked and recorded, Lineups was not.
C14_Witness ==
  /\ pc = "returned"
  /\ args.supplementary_only /\ ~args.lineups_only /\ ~args.dry_run
  /\ invoked = SupplementaryOrder
  /\ Len(results) = 7
  /\ \A i \in 1..Len(results) : results[i].key # "Lineups"
  /\ \E i \in 1..Len(results) : results[i].ok

\* The table fetch_and_merge_lineups returned for the group quantity gq, None
\* when its dict has no such key.
LineupsOf(gq) ==
  LET it == SelectSeq(fresult.items, LAMBDA e : e.key = gq)
  IN IF Len(it) = 0 THEN PyNone ELSE it[1].value

\* The (season type, per-mode) combinations of the sweep.
Combinations == Range(SweptSeasonTypes) \X Range(SweptPerModes)

(***************************************************************************)
(* C15.  End-to-end lineup scenario.  When Base and Advanced each return   *)
(* the same two lineups (GROUP_IDs 1 and 2) and no other measure type      *)
(* returns anything, the dataset of group size 5 holds, for every (season  *)
(* type, per-mode) combination of the sweep, exactly two rows, one for     *)
(* each lineup, with the columns of both measure types and the tags        *)
(* SEASON_TYPE, GROUP_QUANTITY = 5 and PER_MODE of the combination; with   *)
(* the single season type "Regular Season" and the single per-mode         *)
(* "Totals" these are exactly 2 rows in all.  Every row has a players_list *)
(* that is its GROUP_NAME split on " - ": one member for each player.      *)
(***************************************************************************)
C15_LineupScenarioEndToEnd ==
  ( /\ fn = "fetch_and_merge_lineups"
    /\ fpc = "returned"
    /\ svc.mode = "scenario"
    /\ svc.scen["Base"] = Up({1, 2})
    /\ svc.scen["Advanced"] = Up({1, 2})
    /\ 5 \notin svc.dead ) =>
      LET df == LineupsOf(5) IN
      /\ df # PyNone
      /\ Len(df.rows) = 2 * Cardinality(Combinations)
      /\ (SweptSeasonTypes = <<"Regular Season">> /\ SweptPerModes = <<"Totals">>)
            => Len(df.rows) = 2
      /\ \A c \in Combinations :
           LET mine == RowsTagged(df, << <<"SEASON_TYPE", c[1]>>,
                                         <<"GROUP_QUANTITY", 5>>,
                                         <<"PER_MODE", c[2]>> >>)
           IN /\ Len(mine) = 2
              /\ {mine[i]["GROUP_ID"] : i \in 1..Len(mine)} = {1, 2}
      /\ \A i \in 1..Len(df.rows) :
           LET r == df.rows[i] IN
           /\ {"GROUP_ID", "GROUP_NAME", "PTS", "OFF_RATING", "SEASON_TYPE",
               "GROUP_QUANTITY", "PER_MODE", "players_list"} \subseteq DOMAIN r
           /\ r["GROUP_QUANTITY"] = 5
           /\ r["players_list"] = << <<PLAYERS[r["GROUP_ID"]]>>,
                                     <<PLAYERS[r["GROUP_ID"] + 1]>> >>
      /\ \E f \in Range(disk) :
           f.path = <<"lineups_", "5", "man_", args.season, ".csv">> /\ f.rows = Len(df.rows)

\* The scenario has run: the 5-man dataset holds two rows tagged "Regular
\* Season", 5, "Totals", and the row of lineup 1 lists its two players.
C15_Witness ==
  /\ fn = "fetch_and_merge_lineups"
  /\ fpc = "returned"
  /\ svc.mode = "scenario"
  /\ svc.scen["Base"] = Up({1, 2})
  /\ svc.scen["Advanced"] = Up({1, 2})
  /\ LineupsOf(5) # PyNone
  /\ Len(LineupsOf(5).rows) = 2
  /\ \A i \in 1..2 :
       /\ LineupsOf(5).rows[i]["SEASON_TYPE"] = "Regular Season"
       /\ LineupsOf(5).rows[i]["GROUP_QUANTITY"] = 5
       /\ LineupsOf(5).rows[i]["PER_MODE"] = "Totals"
  /\ \E i \in 1..2 :
       /\ LineupsOf(5).rows[i]["GROUP_ID"] = 1
       /\ LineupsOf(5).rows[i]["players_list"] = << <<"L. James">>, <<"A. Davis">> >>

(***************************************************************************)
(* The run as a process that keeps going: the code is sequential, every    *)
(* external call returns or raises in finite time and every sleep ends,    *)
(* so a step that can be taken is taken.  For the two steps of             *)
(* fetch_and_merge_lineups that merge and sort tables, weak fairness is    *)
(* written out, []<>~ENABLED <<A>>_vars \/ []<><<A>>_vars, with the guard  *)
(* of the action for ENABLED.                                              *)
(***************************************************************************)
StepOutsideLineupTables ==
  \/ ParseArgs
  \/ HealthCheckCall
  \/ HealthCheckTake
  \/ AfterHealthCheck
  \/ SectionStart
  \/ FetchCall
  \/ CallAttempt
  \/ CallReturns
  \/ CallRaises
  \/ OnOffTake
  \/ FlatTake
  \/ FetchEnd
  \/ HustleTake
  \/ HustleEnd
  \/ SectionDone
  \/ PrintSummary

\* The guard of LineupTake: the call of a lineup point is over.
LineupTakeDue ==
  fn = "fetch_and_merge_lineups" /\ fpc = "call" /\ rpc \in {"returned", "raised"}

\* The guard of LineupEnd: the lineup sweep is over.
LineupEndDue ==
  fn = "fetch_and_merge_lineups" /\ fpc = "loop" /\ idx > Len(Points(fn))

SpecLive ==
  /\ Init
  /\ [][Next]_vars
  /\ WF_vars(StepOutsideLineupTables)
  /\ ([]<>~LineupTakeDue \/ []<><<LineupTake>>_vars)
  /\ ([]<>~LineupEndDue \/ []<><<LineupEnd>>_vars)

(***************************************************************************)
(* C16.  Under any pattern of external-call failures, a run that is not a  *)
(* dry run eventually renders its summary: once the arguments are parsed,  *)
(* the run reaches the state in which _print_summary has been called and   *)
(* run() has returned, and it never exits before.  Every sweep is finite   *)
(* and every call is attempted at most `retries` times.                    *)
(***************************************************************************)
C16_RunReachesSummary ==
  /\ []((pc = "parsed" /\ ~args.dry_run) => <>(pc = "returned" /\ summary # NoSummary))
  /\ []((pc \notin {"idle", "argparse_exit"} /\ ~args.dry_run) => (pc # "exited" /\ exit_code # 1))
  /\ [](rpc \in {"try", "call"} => (attempt <= retries /\ fails <= retries))
  /\ [](fpc # "idle" => idx <= Len(Points(fn)) + 1)

\* A full run against a service that was down throughout has returned with its
\* summary: the health check and every call of every section failed on all
\* their attempts, and all eight sections are listed as failed.
C16_Witness ==
  /\ pc = "returned"
  /\ ~args.dry_run
  /\ ~healthy
  /\ summary # NoSummary
  /\ Len(summary.failed) = Len(SECTIONS)
  /\ summary.api_calls > HEALTH_RETRIES + API_RETRIES * Len(SECTIONS)
  /\ summary.total_rows = 0

\* The entry at position p of m_in is a table that has no merge-key column.
LacksKey(p) == m_in[p].df # PyNone /\ "GROUP_ID" \notin Range(m_in[p].df.cols)

\* The values of all the cells of a frame.
CellsOf(df) ==
  UNION { {df.rows[i][c] : c \in DOMAIN df.rows[i]} : i \in 1..Len(df.rows) }

(***************************************************************************)
(* C17.  merge_measure_types returns the empty table, without rows and     *)
(* without columns, when the input mapping is empty and when no table of   *)
(* the mapping contributes: every one is absent (None), empty, or lacks    *)
(* the merge key.                                                          *)
(***************************************************************************)
C17_NothingToMergeGivesEmptyTable ==
  (m_out # Pending /\ \A p \in 1..Len(m_in) : ~Contributes(p)) =>
     /\ m_out.cols = <<>>
     /\ m_out.rows = <<>>
     /\ m_out = EmptyDataFrame

\* A mapping of two tables has been merged to the empty table: the first table
\* has columns and no rows, the second has rows and no merge key.
C17_Witness ==
  /\ m_out = EmptyDataFrame
  /\ Len(m_in) = 2
  /\ m_in[1].df # PyNone /\ Len(m_in[1].df.cols) > 0 /\ Len(m_in[1].df.rows) = 0
  /\ LacksKey(2) /\ Len(m_in[2].df.rows) > 0

(***************************************************************************)
(* C18.  merge_measure_types drops a table that lacks the merge-key        *)
(* column and raises nothing: the merge returns, no cell of the dropped    *)
(* table is in the merged table, and the merged table is the one the       *)
(* remaining tables alone are merged to, columns, rows and all.            *)
(***************************************************************************)
C18_TableWithoutKeyDropped ==
  m_out # Pending =>
    /\ IsDataFrame(m_out)
    /\ \A p \in 1..Len(m_in) :
         LacksKey(p) => CellsOf(m_out) \cap CellsOf(m_in[p].df) = {}
    /\ m_out = merge_measure_types(
                 SelectSeq(m_in, LAMBDA e : e.df = PyNone
                                             \/ "GROUP_ID" \in Range(e.df.cols)),
                 "GROUP_ID")

\* The first table has the columns X, Y and rows but no merge key, the second
\* the columns GROUP_ID, X and two keys: the merged table is the second table.
C18_Witness ==
  /\ m_out # Pending
  /\ Len(m_in) = 2
  /\ LacksKey(1) /\ Len(m_in[1].df.rows) > 0
  /\ Contributes(2) /\ m_in[2].df.cols = <<"GROUP_ID", "X">>
  /\ KeysOf(m_in[2].df) = {1, 2}
  /\ m_out = m_in[2].df

(***************************************************************************)
(* The fetcher harness: any one of the eight fetchers is called once,      *)
(* against a service that changes what it does between the calls of the    *)
(* sweep, so that the points of one sweep come to different outcomes.      *)
(***************************************************************************)
AllFetchers == {SectionsOf(SEASON)[i].fn : i \in 1..Len(SectionsOf(SEASON))}

FetcherStart ==
  /\ fpc = "idle"
  /\ \E f \in AllFetchers : FetchEnter(f)
  /\ UNCHANGED <<retryVars, svc, harnessVars, mergeVars, runVars>>

InitFetcher ==
  /\ RetryInit
  /\ svc \in { Service(m, "call", f, d) :
                 m \in ServiceModes, f \in EmptyFlavours, d \in BOOLEAN }
  /\ ncalls = 0
  /\ MergeIdle
  /\ FetchIdle
  /\ RunIdle

NextFetcher ==
  \/ FetcherStart
  \/ FetchCall
  \/ CallAttempt
  \/ CallReturns
  \/ CallRaises
  \/ LineupTake
  \/ LineupEnd
  \/ OnOffTake
  \/ FlatTake
  \/ FetchEnd
  \/ HustleTake
  \/ HustleEnd

SpecFetcher == InitFetcher /\ [][NextFetcher]_vars

\* The declared parameter product of a fetcher: the set of the `params` (with
\* the endpoint class) of all the combinations of its enumerations.
Declared(f) ==
  CASE f = "fetch_and_merge_lineups" ->
         { [endpoint |-> "LeagueDashLineups", season_type |-> st, group_quantity |-> gq,
            per_mode |-> pm, measure_type |-> mt] :
             st \in Range(SweptSeasonTypes), gq \in Range(SweptGroupQuantities),
             pm \in Range(SweptPerModes), mt \in Range(MEASURE_TYPES) }
    [] f = "fetch_on_off" ->
         { [endpoint |-> "TeamPlayerOnOffSummary", team_id |-> t, season_type |-> st] :
             t \in Range(SweptTeamIds), st \in Range(SweptSeasonTypes) }
    [] f = "fetch_clutch" ->
         { [endpoint |-> "LeagueDashTeamClutch", season_type |-> st] :
             st \in Range(SweptSeasonTypes) }
    [] f = "fetch_play_types" ->
         { [endpoint |-> "SynergyPlayTypes", season_type |-> st, play_type |-> y,
            type_grouping |-> tg, player_or_team |-> pt[1], label |-> pt[2]] :
             st \in Range(SweptSeasonTypes), y \in Range(SweptPlayTypes),
             tg \in {"Offensive", "Defensive"},
             pt \in {<<"T", "Team">>, <<"P", "Player">>} }
    [] f = "fetch_hustle" ->
         { [endpoint |-> e, season_type |-> st] :
             e \in {"LeagueHustleStatsPlayer", "LeagueHustleStatsTeam"},
             st \in Range(SweptSeasonTypes) }
    [] f = "fetch_tracking" ->
         { [endpoint |-> "LeagueDashPtStats", season_type |-> st, pt_measure_type |-> m,
            player_or_team |-> pt, label |-> pt] :
             st \in Range(SweptSeasonTypes), m \in Range(SweptPtMeasureTypes),
             pt \in {"Player", "Team"} }
    [] f = "fetch_defense_tracking" ->
         { [endpoint |-> "LeagueDashPtDefend", season_type |-> st, defense_category |-> c] :
             st \in Range(SweptSeasonTypes), c \in Range(SweptDefenseCategories) }
    [] f = "fetch_estimated_metrics" ->
         { [endpoint |-> "PlayerEstimatedMetrics", season_type |-> st] :
             st \in Range(SweptSeasonTypes) }
    [] OTHER -> {}

(***************************************************************************)
(* C19.  Every category fetcher calls api_call_with_retry exactly once for *)
(* every point of its declared parameter product (lineups: season type x   *)
(* group size x per-mode x measure type; on/off: team x season type; play  *)
(* types: season type x play type x offense/defense x player/team; and so  *)
(* on for the others), whatever the calls of other points came to: at any  *)
(* time the calls issued are points of the product and no two are the      *)
(* same, and when the fetcher ends they are the whole product.             *)
(***************************************************************************)
C19_FullProductOncePerPoint ==
  (fn # "none") =>
     /\ Range(calls) \subseteq Declared(fn)
     /\ \A i, j \in 1..Len(calls) : calls[i] = calls[j] => i = j
     /\ (fpc \in {"returned", "raised"}) =>
          /\ Range(calls) = Declared(fn)
          /\ Len(calls) = Cardinality(Declared(fn))
          /\ Len(outcomes) = Len(calls)

\* The play-type sweep is over: its four points were called once each, the
\* first failed on all its attempts, a later one returned data and another
\* returned nothing.
C19_Witness ==
  /\ fn = "fetch_play_types"
  /\ fpc = "returned"
  /\ Len(calls) = 4
  /\ Range(calls) = Declared("fetch_play_types")
  /\ outcomes[1] = "raised"
  /\ \E i \in 2..4 : outcomes[i] = "data"

\* The waits of a call whose first n attempts failed and were followed by
\* another attempt: base_delay, then each the multiplier times the one before.
RECURSIVE GeometricWaits(_)
GeometricWaits(n) ==
  IF n = 0 THEN <<>>
  ELSE IF n = 1 THEN <<base_delay>>
  ELSE LET w == GeometricWaits(n - 1)
       IN Append(w, API_BACKOFF_MULTIPLIER * w[n - 1])

(***************************************************************************)
(* C20.  api_call_with_retry sleeps after a failed attempt that is not the *)
(* last, and the wait after the failed attempt number a (counted from 0)   *)
(* is base_delay * multiplier^a.  So there is one wait for every failed    *)
(* attempt that another attempt follows: a call that returned after k      *)
(* failures waited k times (no wait follows the success), and a call       *)
(* whose N attempts all failed waited N-1 times, base_delay *              *)
(* multiplier^0 up to base_delay * multiplier^(N-2), with no wait after    *)
(* the last failure.                                                       *)
(***************************************************************************)
C20_BackoffWaitSequence ==
  (rpc # "idle") =>
     /\ \A i \in 1..Len(waits) :
          waits[i] = base_delay * Pow(API_BACKOFF_MULTIPLIER, i - 1)
     /\ waits = GeometricWaits(Len(waits))
     /\ (rpc \in {"try", "call", "returned"}) => Len(waits) = fails
     /\ (rpc \in {"try", "call"}) => Len(waits) = attempt
     /\ (rpc = "raised" /\ retries > 0) =>
          /\ fails = retries
          /\ Len(waits) = retries - 1

\* A call with a ceiling of four attempts failed four times and raised: it
\* waited three times, 3, 6 and 12 seconds.
C20_Witness ==
  /\ rpc = "raised"
  /\ retries = 4
  /\ fails = 4
  /\ base_delay = API_BASE_DELAY
  /\ waits = <<3, 6, 12>>

(***************************************************************************)
(* C21.  In every category fetcher pace() is executed exactly once after   *)
(* the call of each parameter point, whether the call returned data,       *)
(* returned nothing or raised: the pacing delays made are as many as the   *)
(* points whose call is over, so that when the call of the next point is   *)
(* issued one delay has passed since the call before it, and a fetcher     *)
(* that has ended has paced once for every point of its sweep.             *)
(***************************************************************************)
C21_PaceOncePerPoint ==
  /\ [](fn # "none" =>
          /\ paces = Len(outcomes)
          /\ paces = Len(calls) - (IF fpc = "call" THEN 1 ELSE 0)
          /\ (fpc \in {"returned", "raised"}) => paces = Len(Points(fn)))
  /\ [][ (fn' = fn /\ Len(calls') > Len(calls)) =>
           (paces = Len(calls) /\ paces' = paces) ]_vars
  /\ [][ (fn' = fn /\ paces' # paces) =>
           (paces' = paces + 1 /\ fpc = "call" /\ Len(calls') = Len(calls)) ]_vars

\* The sweep of the three defense categories is over: the first call raised,
\* the second returned nothing, the third returned data, and three pacing
\* delays were made.
C21_Witness ==
  /\ fn = "fetch_defense_tracking"
  /\ fpc = "returned"
  /\ outcomes = <<"raised", "nothing", "data">>
  /\ paces = 3

(***************************************************************************)
(* Whole runs against a service that may change what it does from call to  *)
(* call, so that the points of one section can differ in their outcome.    *)
(***************************************************************************)
InitManifest ==
  /\ RetryInit
  /\ svc \in { Service(m, "call", f, d) :
                 m \in ServiceModes, f \in EmptyFlavours, d \in BOOLEAN }
  /\ ncalls = 0
  /\ MergeIdle
  /\ FetchIdle
  /\ RunIdle

SpecManifest == InitManifest /\ [][Next]_vars

\* The paths of the files on disk.
PathsWritten == { disk[j].path : j \in 1..Len(disk) }

(***************************************************************************)
(* C22.  At every point of a run every path in files_written is the path   *)
(* of a file a fetcher wrote during the run: the lineups section lists     *)
(* only the group quantities that produced data, the hustle section only   *)
(* the player or team table that produced data.                            *)
(***************************************************************************)
C22_ManifestListsWrittenFiles ==
  \A i \in 1..Len(files_written) : files_written[i] \in PathsWritten

(***************************************************************************)
(* The tagging harness: the tables the service returned for one point of a *)
(* fetcher are given the columns the fetcher's loop body assigns.  The     *)
(* response is the service's usual one, or that response with a column of  *)
(* its own, in a table the fetcher keeps, that bears the name of a column  *)
(* the fetcher assigns.  All eight fetchers assign columns.                *)
(***************************************************************************)
TaggingFetchers ==
  FlatFetchers \cup {"fetch_on_off", "fetch_hustle", "fetch_and_merge_lineups"}

\* The points at which a fetcher tags: every point, for the lineups the last
\* measure type of a combination.
TagPoints(f) ==
  IF f = "fetch_and_merge_lineups"
    THEN SelectSeq(LineupPoints,
                   LAMBDA p : p.measure_type = MEASURE_TYPES[Len(MEASURE_TYPES)])
    ELSE Points(f)

\* The columns the loop body of fetcher f assigns at point p, in the order it
\* assigns them.
ProvenanceColumns(f, p) ==
  CASE f = "fetch_and_merge_lineups" ->
         <<"SEASON_TYPE", "GROUP_QUANTITY", "PER_MODE", "team", "players_list">>
    [] f = "fetch_on_off" -> <<"COURT_STATUS", "team", "SEASON_TYPE">>
    [] OTHER -> [k \in 1..Len(Tags(f, p)) |-> Tags(f, p)[k][1]]

\* The values a column of the service's own may hold under the name c: those
\* the fetchers give a column of that name.
ForeignValues(c) ==
  CASE c = "GROUP_QUANTITY" -> Range(GROUP_QUANTITIES)
    [] c = "SEASON_TYPE" -> Range(SEASON_TYPES)
    [] c = "PER_MODE" -> Range(PER_MODES)
    [] c = "PLAY_TYPE" -> Range(SYNERGY_PLAY_TYPES)
    [] c = "TYPE_GROUPING" -> Range(type_groupings)
    [] c = "PT_MEASURE_TYPE" -> Range(PT_MEASURE_TYPES)
    [] c = "DEFENSE_CATEGORY" -> Range(DEFENSE_CATEGORIES)
    [] c = "PLAYER_OR_TEAM" -> {"Player", "Team"}
    [] c = "COURT_STATUS" -> {"On", "Off"}
    [] c = "team" -> Range(TEAM_NAMES)
    [] c = "players_list" -> { << <<PLAYERS[k]>> >> : k \in 1..Len(PLAYERS) }
    [] OTHER -> {}

\* The tables the service returns for fetcher f.
ApiResponse(f) ==
  CASE f = "fetch_and_merge_lineups" -> <<LineupFrame("Base", DefaultKeys)>>
    [] f = "fetch_on_off" -> OnOffTables
    [] OTHER -> <<StatTable>>

\* The responses the service may return at point p: the usual one, or one in
\* which a table the fetcher keeps (the on-court or the off-court table of
\* fetch_on_off, the first table of the others) has a column named like one of
\* the columns the fetcher assigns.
ApiResponses(f, p) ==
  LET resp == ApiResponse(f)
      kept == IF f = "fetch_on_off" THEN {2, 3} ELSE {1}
      cs == ProvenanceColumns(f, p)
  IN {resp} \cup
     UNION { { [resp EXCEPT ![tk[1]] = DfAssign(@, cs[tk[2]], v)] :
                 v \in ForeignValues(cs[tk[2]]) } :
             tk \in kept \X (1..Len(cs)) }

TagInputs ==
  UNION { UNION { {[f |-> f, p |-> TagPoints(f)[i], dfs |-> dfs] :
                     dfs \in ApiResponses(f, TagPoints(f)[i])} :
                  i \in 1..Len(TagPoints(f)) } :
          f \in TaggingFetchers }

\* What the fetcher f makes of the response dfs at point p.
Tagged(f, p, dfs) ==
  CASE f = "fetch_and_merge_lineups" ->
         LineupCombo(<<[name |-> "Base", df |-> dfs[1]]>>, p)
    [] f = "fetch_on_off" -> OnOffCombined(dfs, p)
    [] OTHER -> DfAssignAll(dfs[1], Tags(f, p))

TagCall ==
  /\ m_out = Pending
  /\ m_out' = Tagged(m_in.f, m_in.p, m_in.dfs)
  /\ UNCHANGED <<m_in, retryVars, svc, harnessVars, fetchVars, runVars>>

InitTag ==
  /\ m_in \in TagInputs
  /\ m_out = Pending
  /\ RetryInit
  /\ svc = Service("up", "never", "zero_rows", TRUE)
  /\ ncalls = 0
  /\ FetchIdle
  /\ RunIdle

NextTag == TagCall

SpecTag == InitTag /\ [][NextTag]_vars

(***************************************************************************)
(* C23.  Provenance tagging only appends columns: in the tagged table      *)
(* every cell the service supplied holds, row by row, the value the        *)
(* service returned, also when the service's table has a column named      *)
(* like a provenance column.  The rows the service supplied are those of   *)
(* the table the fetcher keeps; for fetch_on_off the rows of the on-court  *)
(* table followed by those of the off-court table.                         *)
(***************************************************************************)
C23_TaggingKeepsApiColumns ==
  m_out # Pending =>
    LET api == IF m_in.f = "fetch_on_off"
                 THEN m_in.dfs[2].rows \o m_in.dfs[3].rows
                 ELSE m_in.dfs[1].rows
    IN \A i \in 1..Len(api) :
         \A c \in DOMAIN api[i] :
           m_out.rows[i][c] = api[i][c]

(***************************************************************************)
(* The repeated-key harness: merge_measure_types is applied to tables of   *)
(* the measure types in which a GROUP_ID may stand in several rows, as in  *)
(* the tables of a lineup that played for two teams.                       *)
(***************************************************************************)
\* The key columns of up to n rows over the keys 1..MaxKey.
RECURSIVE KeyColumns(_)
KeyColumns(n) ==
  IF n = 0 THEN { <<>> }
  ELSE KeyColumns(n - 1) \cup
       { Append(ks, k) : ks \in { q \in KeyColumns(n - 1) : Len(q) = n - 1 },
                         k \in 1..MaxKey }

\* The table of measure type number p whose rows have the keys ks.
KeyedFrame(p, ks) ==
  [cols |-> <<"GROUP_ID", StatColumn(MEASURE_TYPES[p])>>,
   rows |-> [i \in 1..Len(ks) |->
               [c \in {"GROUP_ID", StatColumn(MEASURE_TYPES[p])} |->
                  IF c = "GROUP_ID" THEN ks[i] ELSE 100 * p + i]]]

RECURSIVE KeyedInputsOfLen(_)
KeyedInputsOfLen(n) ==
  IF n = 0 THEN { <<>> }
  ELSE { Append(d, [name |-> MEASURE_TYPES[n], df |-> KeyedFrame(n, ks)]) :
           d \in KeyedInputsOfLen(n - 1),
           ks \in { q \in KeyColumns(MaxRows) : Len(q) > 0 } }

\* The dataframes_dicts of up to n keyed tables.
KeyedInputs(n) == UNION { KeyedInputsOfLen(k) : k \in 1..n }

InitMergeKeys ==
  /\ m_in \in KeyedInputs(MaxTables + 1)
  /\ m_out = Pending
  /\ RetryInit
  /\ svc = Service("any", "never", "zero_rows", TRUE)
  /\ ncalls = 0
  /\ FetchIdle
  /\ RunIdle

SpecMergeKeys == InitMergeKeys /\ [][NextMerge]_vars

\* The rows of all the input tables, counted table by table.
InputRows == Sum([p \in 1..Len(m_in) |-> Len(m_in[p].df.rows)])

(***************************************************************************)
(* C24.  For every input of merge_measure_types, tables in which a key     *)
(* stands in more than one row included, the merged table has at most as   *)
(* many rows as the union of the input tables' rows under the outer join:  *)
(* never more rows than the input tables hold together (and so never more  *)
(* than they hold distinct keys, which is the smaller number).             *)
(***************************************************************************)
C24_MergedRowsWithinUnion ==
  m_out # Pending => Len(m_out.rows) <= InputRows

\* Some point of group quantity g returned a table with rows: a combination of
\* g has a merged table that is not empty.
ProducedData(g) ==
  \E i \in 1..Len(outcomes) :
    outcomes[i] = "data" /\ Points(fn)[i].group_quantity = g

\* The places of group quantity g in the dict fetch_and_merge_lineups returned.
EntriesOf(g) == { j \in 1..Len(fresult.items) : fresult.items[j].key = g }

\* The rows of the merged tables collected for g, one table after the other.
CollectedRows(g) ==
  IF Len(accumulators[g]) = 0 THEN <<>> ELSE DfConcat(accumulators[g]).rows

(***************************************************************************)
(* C25.  fetch_and_merge_lineups returns one dataset per group quantity:   *)
(* the dict has an entry for g, and the file of g is written, if and only  *)
(* if a combination of g produced a merged table that is not empty; the    *)
(* rows of the entry are the rows of the merged tables of g's              *)
(* combinations, all of them and no others (sorted for reading), and each  *)
(* row carries GROUP_QUANTITY = g.                                         *)
(***************************************************************************)
C25_OneDatasetPerGroupQuantity ==
  (fn = "fetch_and_merge_lineups" /\ fpc = "returned") =>
    \A k \in 1..Len(SweptGroupQuantities) :
      LET g == SweptGroupQuantities[k] IN
        /\ ProducedData(g) <=> EntriesOf(g) # {}
        /\ ProducedData(g) <=> LineupPath(g, args.season) \in PathsWritten
        /\ Cardinality(EntriesOf(g)) <= 1
        /\ \A j \in EntriesOf(g) :
             LET rows == fresult.items[j].value.rows IN
               /\ Len(rows) = Len(CollectedRows(g))
               /\ Len(rows) > 0
               /\ Range(rows) = Range(CollectedRows(g))
               /\ \A i \in 1..Len(rows) : rows[i]["GROUP_QUANTITY"] = g

\* The service has lineups of the first group quantity and none of the other:
\* the dict returned has the one entry, with the rows of both lineups.
C25_Witness ==
  /\ fn = "fetch_and_merge_lineups"
  /\ fpc = "returned"
  /\ svc.dead # {}
  /\ Len(fresult.items) = 1
  /\ fresult.items[1].key = SweptGroupQuantities[1]
  /\ Len(fresult.items[1].value.rows) >= 2
  /\ Len(disk) = 1

(***************************************************************************)
(* C26.  api_call_with_retry stops at the first attempt that succeeds:     *)
(* against an endpoint that fails k times (0 <= k < N) and then succeeds,  *)
(* it has made exactly k+1 attempts when it returns, the API-call counter  *)
(* is exactly k+1 higher than at entry, the value returned is the object   *)
(* of attempt k+1, and after the success no attempt is made and the        *)
(* counter stands still until the caller has the result.                   *)
(***************************************************************************)
C26_StopsAtFirstSuccess ==
  /\ [](rpc = "returned" =>
          /\ fails < retries
          /\ attempt = fails
          /\ Len(waits) = fails
          /\ api_call_count = count_before + fails + 1
          /\ rresult \in ResponseMenu(rparams)
          /\ rerror = "")
  /\ [][ (rpc = "call" /\ rresult' # rresult) =>
           (rpc' = "returned" /\ attempt' = attempt /\ fails' = fails
            /\ api_call_count' = api_call_count) ]_vars
  /\ [][ rpc = "returned" =>
           (rpc' \in {"returned", "idle"} /\ api_call_count' = api_call_count
            /\ issued' = issued /\ rresult' = rresult) ]_vars

\* A call with a ceiling of three or more has returned on its second attempt,
\* the others unused, after an earlier call moved the counter.
C26_Witness ==
  /\ rpc = "returned"
  /\ retries >= 3
  /\ fails = 1
  /\ count_before > 0
  /\ api_call_count = count_before + 2

(***************************************************************************)
(* C27.  api_call_with_retry called with an attempt ceiling of 0 or below  *)
(* makes no external call, leaves the API-call counter as it was at entry, *)
(* and raises the RuntimeError "exhausted retries"; it returns no value.   *)
(***************************************************************************)
C27_ZeroCeilingRaisesWithoutCall ==
  /\ [](retries <= 0 =>
          /\ rpc \in {"idle", "try", "raised"}
          /\ api_call_count = count_before
          /\ fails = 0
          /\ waits = <<>>
          /\ rresult = NoResult
          /\ rpc = "raised" => rerror = "RuntimeError: exhausted retries")
  /\ [][ (rpc = "try" /\ retries <= 0) =>
           (rpc' = "raised" /\ issued' = issued
            /\ api_call_count' = api_call_count) ]_vars
  /\ [](rerror = "RuntimeError: exhausted retries" => retries <= 0)

\* A call with a negative ceiling has raised, after an earlier call with a
\* positive ceiling moved the counter: the counter stands where it stood.
C27_Witness ==
  /\ rpc = "raised"
  /\ retries < 0
  /\ rerror = "RuntimeError: exhausted retries"
  /\ count_before > 0
  /\ api_call_count = count_before
  /\ issued = count_before

\* The entry at position p of m_in is passed over by the selection loop: it is
\* absent, has no rows, or lacks the merge key.
Skipped(p) == ~Contributes(p)

\* The columns of the entry at position p (none when it is absent).
ColumnsAt(p) == IF m_in[p].df = PyNone THEN {} ELSE Range(m_in[p].df.cols)

(***************************************************************************)
(* C28.  In merge_measure_types a table that is passed over (absent,       *)
(* without rows, or lacking the merge key) claims no column: where a later *)
(* table that contributes has a column of the same name, and no            *)
(* contributing table before it has, the merged table has that column      *)
(* once, and in every merged row whose key the later table holds, its cell *)
(* is the later table's cell for that key.  The merged table is the one    *)
(* the mapping without its passed-over tables is merged to.                *)
(***************************************************************************)
C28_SkippedTableClaimsNoColumn ==
  m_out # Pending =>
    /\ \A p \in 1..Len(m_in) : \A q \in 1..(p - 1) :
         \A c \in (ColumnsAt(p) \cap ColumnsAt(q)) \ {"GROUP_ID"} :
           ( /\ Skipped(q) /\ Contributes(p)
             /\ \A o \in 1..(p - 1) : ~(Contributes(o) /\ c \in ColumnsAt(o)) ) =>
               /\ Len(SelectSeq(m_out.cols, LAMBDA x : x = c)) = 1
               /\ \A i \in 1..Len(m_out.rows) :
                    LET r == m_out.rows[i] IN
                    r["GROUP_ID"] \in KeysOf(m_in[p].df) =>
                      /\ c \in DOMAIN r
                      /\ \E j \in 1..Len(m_in[p].df.rows) :
                           /\ m_in[p].df.rows[j]["GROUP_ID"] = r["GROUP_ID"]
                           /\ m_in[p].df.rows[j][c] = r[c]
    /\ m_out = merge_measure_types(
                 SelectSeq(m_in, LAMBDA e : /\ e.df # PyNone
                                            /\ ~DfEmpty(e.df)
                                            /\ "GROUP_ID" \in Range(e.df.cols)),
                 "GROUP_ID")

\* The first table has the columns GROUP_ID and X and no rows, the second has
\* GROUP_ID, X and Y and rows: the merged table has the second table's X.
C28_Witness ==
  /\ m_out # Pending
  /\ Len(m_in) = 2
  /\ m_in[1].df # PyNone
  /\ m_in[1].df.cols = <<"GROUP_ID", "X">> /\ Len(m_in[1].df.rows) = 0
  /\ Contributes(2) /\ m_in[2].df.cols = <<"GROUP_ID", "X", "Y">>
  /\ m_out.cols = <<"GROUP_ID", "X", "Y">>
  /\ Len(m_out.rows) = 2
  /\ ColumnValues(m_out, "X") = ColumnValues(m_in[2].df, "X")

\* The entry at position p contributes, and every column of it but the merge
\* key is a column of a contributing entry before it.
AllClaimed(p) ==
  /\ Contributes(p)
  /\ \A c \in ColumnsAt(p) \ {"GROUP_ID"} :
       \E q \in 1..(p - 1) : Contributes(q) /\ c \in ColumnsAt(q)

\* The merge keys of the entries that bring a column of their own.
KeysOfColumnSources ==
  UNION { KeysOf(m_in[p].df) :
            p \in { q \in 1..Len(m_in) : Contributes(q) /\ ~AllClaimed(q) } }

(***************************************************************************)
(* C29.  In merge_measure_types a table with rows and the merge key whose  *)
(* other columns were all claimed by earlier tables is still joined, as a  *)
(* table of the key alone: each of its keys is the key of a merged row,    *)
(* none of its other cells is in the merged table, and a merged row whose  *)
(* key no other contributing table holds has no cell but the key.  The     *)
(* keys of the merged table are those of all the contributing tables, the  *)
(* key-only ones included.                                                 *)
(***************************************************************************)
C29_KeyOnlyTableStillJoined ==
  m_out # Pending =>
    /\ \A p \in 1..Len(m_in) :
         AllClaimed(p) =>
           /\ KeysOf(m_in[p].df) \subseteq KeysOf(m_out)
           /\ \A j \in 1..Len(m_in[p].df.rows) :
                \A c \in ColumnsAt(p) \ {"GROUP_ID"} :
                  m_in[p].df.rows[j][c] \notin CellsOf(m_out)
           /\ \A i \in 1..Len(m_out.rows) :
                LET r == m_out.rows[i] IN
                (\A q \in 1..Len(m_in) :
                   (q # p /\ Contributes(q)) => r["GROUP_ID"] \notin KeysOf(m_in[q].df))
                  => DOMAIN r = {"GROUP_ID"}
    /\ KeysOf(m_out) =
         UNION { KeysOf(m_in[p].df) : p \in { q \in 1..Len(m_in) : Contributes(q) } }

\* Both tables have the columns GROUP_ID and X; the first holds key 1, the
\* second keys 1 and 2: the merged table has a row for key 2, which no table
\* that brought a column holds.
C29_Witness ==
  /\ m_out # Pending
  /\ Len(m_in) = 2
  /\ Contributes(1) /\ m_in[1].df.cols = <<"GROUP_ID", "X">>
  /\ AllClaimed(2) /\ m_in[2].df.cols = <<"GROUP_ID", "X">>
  /\ KeysOf(m_in[1].df) = {1}
  /\ KeysOf(m_in[2].df) = {1, 2}
  /\ KeysOfColumnSources = {1}
  /\ KeysOf(m_out) = {1, 2}

(***************************************************************************)
(* The health-check harness: run() up to the end of its health check,      *)
(* against a service that fails or answers each attempt as it pleases.     *)
(***************************************************************************)
InitHealth ==
  /\ RetryInit
  /\ svc \in { Service("any", "never", f, TRUE) : f \in EmptyFlavours }
  /\ ncalls = 0
  /\ MergeIdle
  /\ FetchIdle
  /\ RunIdle

NextHealth ==
  \/ ParseArgs
  \/ HealthCheckCall
  \/ CallAttempt
  \/ CallReturns
  \/ CallRaises
  \/ HealthCheckTake

SpecHealth == InitHealth /\ [][NextHealth]_vars

(***************************************************************************)
(* C30.  health_check never raises.  It returns True whenever its call     *)
(* succeeds within three attempts, also when the response has no table or  *)
(* no row, and False exactly when all three attempts failed or reading the *)
(* tables of the response raised.  Its attempts, between one and three,    *)
(* are counted in the API-call counter.                                    *)
(***************************************************************************)
C30_HealthCheckTotal ==
  /\ [](pc = "checked" =>
          /\ healthy <=> (rresult # NoResult /\ ~rresult.bad)
          /\ ~healthy <=> (fails = HEALTH_RETRIES \/ (rresult # NoResult /\ rresult.bad))
          /\ (rresult # NoResult /\ ~rresult.bad /\ ~FirstTableHasData(rresult.dfs)) => healthy
          /\ fails = HEALTH_RETRIES <=> rresult = NoResult
          /\ api_call_count = fails + (IF rresult = NoResult THEN 0 ELSE 1)
          /\ api_call_count \in 1..HEALTH_RETRIES)
  /\ [](pc = "health" => retries = HEALTH_RETRIES /\ base_delay = HEALTH_BASE_DELAY)
  /\ [][ (pc = "health" /\ pc' # pc) =>
           (pc' = "checked" /\ exit_code' = exit_code
            /\ api_call_count' = api_call_count) ]_vars

\* The call of the health check failed twice and then returned a response
\* without tables: the check is passed, three attempts are counted.
C30_Witness ==
  /\ pc = "checked"
  /\ healthy
  /\ fails = 2
  /\ rresult # NoResult
  /\ rresult.dfs = <<>>
  /\ ~rresult.bad
  /\ api_call_count = 3

=============================================================================
